---- MODULE Spec2Model ----
(***************************************************************************)
(* Model of the coordination engine of Perso_AI_AGENT:                     *)
(*   src/core/orchestrator.py  (Orchestrator: register_agent,              *)
(*                              _get_agent_fuzzy, plan_task, run)          *)
(*   src/core/llm_client.py    (OllamaClient.generate, the backend)        *)
(*   src/core/agent_base.py    (BaseAgent, the process contract)           *)
(*                                                                         *)
(* Python values are tagged pairs <<tag, payload>>:                        *)
(*   <<"str", s>>    a str                                                 *)
(*   <<"none", "">>  None / JSON null                                      *)
(*   <<"list", q>>   a list, q a sequence of values                        *)
(*   <<"dict", q>>   a dict in insertion order, q a sequence of            *)
(*                   <<key, value>> pairs, keys distinct                   *)
(*   <<"obj", "">>   an object json.dumps cannot serialise                 *)
(*   <<"int", n>>    an int                                                *)
(* The execution context and the registry, whose order is never observed,  *)
(* are functions from string keys.                                         *)
(***************************************************************************)
EXTENDS Integers, Sequences, FiniteSets, TLC

VARIABLES
    agents,       \* self.agents: registered name -> agent object
    pc,           \* position of the caller: "setup", "planning", "loop", "returned", "raised"
    user_query,   \* the argument of run
    steps,        \* the plan returned by plan_task (a sequence of values)
    i,            \* index of the next step of the loop (0-based, as enumerate)
    context,      \* the execution context of the run
    last_result,  \* last_result of the run
    ret,          \* the mapping run returned (meaningful when pc = "returned")
    exc,          \* message of the exception that escaped run (pc = "raised")
    calls,        \* history: the agent.process invocations of the run, in order
    plan_calls,   \* history: number of llm_client.generate calls made by plan_task
    plan_response,\* history: what the backend did when asked for the plan
    res,          \* history: the outcome of the latest _get_agent_fuzzy call
    registrations,\* history: the agents given to register_agent, in order
    proc,         \* history: the latest call of an agent's process on its own
    cycle,        \* TechWatchAgent.run_full_cycle: its position, cycle_data, report
    runs          \* the runs driven concurrently on one coordinator, by run id

vars == <<agents, pc, user_query, steps, i, context, last_result, ret, exc,
          calls, plan_calls, plan_response, res, registrations, proc, cycle, runs>>

(***************************************************************************)
(* Bounds of the model.                                                    *)
(***************************************************************************)
MaxSteps == 2

(***************************************************************************)
(* Python values.                                                          *)
(***************************************************************************)
PyStr(s) == <<"str", s>>
PyNone == <<"none", "">>
PyList(q) == <<"list", q>>
PyDict(q) == <<"dict", q>>
PyObj == <<"obj", "">>
PyInt(n) == <<"int", n>>

IsStr(v) == v[1] = "str"
IsDict(v) == v[1] = "dict"
IsList(v) == v[1] = "list"

\* key in d, for a dict d
HasKey(d, key) == \E n \in 1..Len(d[2]) : d[2][n][1] = key

\* d[key], for a dict d holding key
GetKey(d, key) == d[2][CHOOSE n \in 1..Len(d[2]) : d[2][n][1] = key][2]

\* d.get(key, default)
DictGet(d, key, default) == IF HasKey(d, key) THEN GetKey(d, key) ELSE default

\* The mapping m after m[key] = v, for a mapping whose order is not observed.
MapSet(m, key, v) ==
    [k \in DOMAIN m \cup {key} |-> IF k = key THEN v ELSE m[k]]

EmptyMap == [k \in {} |-> PyNone]

RECURSIVE JoinWith(_, _)
\* sep.join(q) for a sequence q of strings
JoinWith(q, sep) ==
    IF Len(q) = 0 THEN ""
    ELSE IF Len(q) = 1 THEN q[1]
    ELSE q[1] \o sep \o JoinWith(Tail(q), sep)

RECURSIVE Serializable(_)
\* Whether json.dumps accepts v
Serializable(v) ==
    CASE v[1] = "obj" -> FALSE
      [] v[1] = "list" -> \A n \in 1..Len(v[2]) : Serializable(v[2][n])
      [] v[1] = "dict" -> \A n \in 1..Len(v[2]) : Serializable(v[2][n][2])
      [] OTHER -> TRUE

RECURSIVE JsonDumps(_)
\* json.dumps(v) with the default separators, for a serialisable v
JsonDumps(v) ==
    CASE v[1] = "str" -> "\"" \o v[2] \o "\""
      [] v[1] = "none" -> "null"
      [] v[1] = "int" -> ToString(v[2])
      [] v[1] = "list" ->
            "[" \o JoinWith([n \in 1..Len(v[2]) |-> JsonDumps(v[2][n])], ", ") \o "]"
      [] v[1] = "dict" ->
            "{" \o JoinWith([n \in 1..Len(v[2]) |->
                     "\"" \o v[2][n][1] \o "\": " \o JsonDumps(v[2][n][2])], ", ") \o "}"
      [] OTHER -> "<unserialisable>"

RECURSIVE Repr(_)
\* repr(v), which is what str(d) shows of the items of a dict d
Repr(v) ==
    CASE v[1] = "str" -> "'" \o v[2] \o "'"
      [] v[1] = "none" -> "None"
      [] v[1] = "int" -> ToString(v[2])
      [] v[1] = "list" ->
            "[" \o JoinWith([n \in 1..Len(v[2]) |-> Repr(v[2][n])], ", ") \o "]"
      [] v[1] = "dict" ->
            "{" \o JoinWith([n \in 1..Len(v[2]) |->
                     "'" \o v[2][n][1] \o "': " \o Repr(v[2][n][2])], ", ") \o "}"
      [] OTHER -> "<object>"

\* str(v): a str is itself, anything else shows its repr
Str(v) == IF IsStr(v) THEN v[2] ELSE Repr(v)

(***************************************************************************)
(* Agent names.  TLC cannot index a string, so Chars gives the characters  *)
(* of each name of the model, which is what difflib iterates over.         *)
(***************************************************************************)
RegisteredNames == {"ExtractionAgent", "ReasoningAgent", "ValidationAgent"}

\* Names a model-generated plan may ask for: an exact name, a small typo,
\* hallucinated names close to registered ones, and a name close to none.
RequestedNames ==
    {"ExtractionAgent", "ExtractoinAgent", "TranslationAgent", "CitationAgent",
     "SummaryAgent"}

\* Keys the coordinator itself writes to the execution context.  Nothing in
\* register_agent keeps an agent from declaring one of them as its name.
ReservedNames == {"original_query", "step_0_result"}

Chars(s) ==
    CASE s = "ExtractionAgent" ->
            <<"E", "x", "t", "r", "a", "c", "t", "i", "o", "n", "A", "g", "e", "n", "t">>
      [] s = "ReasoningAgent" ->
            <<"R", "e", "a", "s", "o", "n", "i", "n", "g", "A", "g", "e", "n", "t">>
      [] s = "ValidationAgent" ->
            <<"V", "a", "l", "i", "d", "a", "t", "i", "o", "n", "A", "g", "e", "n", "t">>
      [] s = "ExtractoinAgent" ->
            <<"E", "x", "t", "r", "a", "c", "t", "o", "i", "n", "A", "g", "e", "n", "t">>
      [] s = "TranslationAgent" ->
            <<"T", "r", "a", "n", "s", "l", "a", "t", "i", "o", "n", "A", "g", "e", "n", "t">>
      [] s = "CitationAgent" ->
            <<"C", "i", "t", "a", "t", "i", "o", "n", "A", "g", "e", "n", "t">>
      [] s = "SummaryAgent" ->
            <<"S", "u", "m", "m", "a", "r", "y", "A", "g", "e", "n", "t">>
      [] s = "Extraction" ->
            <<"E", "x", "t", "r", "a", "c", "t", "i", "o", "n">>
      [] s = "DocumentAnalysisAgent" ->
            <<"D", "o", "c", "u", "m", "e", "n", "t", "A", "n", "a", "l", "y", "s",
              "i", "s", "A", "g", "e", "n", "t">>
      [] s = "original_query" ->
            <<"o", "r", "i", "g", "i", "n", "a", "l", "_", "q", "u", "e", "r", "y">>
      [] s = "step_0_result" ->
            <<"s", "t", "e", "p", "_", "0", "_", "r", "e", "s", "u", "l", "t">>

\* The characters the names use, in code point order.
Alphabet ==
    <<"0", "A", "C", "E", "R", "S", "T", "V", "_", "a", "c", "d", "e", "g", "i",
      "l", "m", "n", "o", "p", "q", "r", "s", "t", "u", "x", "y">>

CharCode(c) == CHOOSE n \in 1..Len(Alphabet) : Alphabet[n] = c

RECURSIVE SeqLess(_, _)
\* a < b as Python orders two strings, on their characters
SeqLess(a, b) ==
    IF Len(b) = 0 THEN FALSE
    ELSE IF Len(a) = 0 THEN TRUE
    ELSE IF a[1] # b[1] THEN CharCode(a[1]) < CharCode(b[1])
    ELSE SeqLess(Tail(a), Tail(b))

StrLess(s, t) == SeqLess(Chars(s), Chars(t))

(***************************************************************************)
(* difflib.SequenceMatcher on two character sequences a (seq1) and b       *)
(* (seq2).  Positions are 1-based, ranges are [lo, hi).  The names are     *)
(* shorter than 200 characters, so no element is junk.                     *)
(***************************************************************************)
RECURSIVE RunLen(_, _, _, _, _, _)
\* Length of the common run of a and b that starts at a[m], b[n].
RunLen(a, b, m, n, ahi, bhi) ==
    IF m < ahi /\ n < bhi /\ a[m] = b[n]
    THEN 1 + RunLen(a, b, m + 1, n + 1, ahi, bhi)
    ELSE 0

\* Of the common blocks size (block start -> length), the longest; of the
\* longest, the one starting earliest in a, then earliest in b.
LongestOf(size, alo, blo) ==
    IF \A p \in DOMAIN size : size[p] = 0 THEN <<alo, blo, 0>>
    ELSE CHOOSE x \in {<<p[1], p[2], size[p]>> : p \in DOMAIN size} :
            \A q \in DOMAIN size :
                \/ x[3] > size[q]
                \/ /\ x[3] = size[q]
                   /\ \/ x[1] < q[1]
                      \/ x[1] = q[1] /\ x[2] <= q[2]

\* find_longest_match: the longest common block <<m, n, size>> of a[alo..ahi)
\* and b[blo..bhi).
FindLongestMatch(a, b, alo, ahi, blo, bhi) ==
    LongestOf([p \in (alo..(ahi - 1)) \X (blo..(bhi - 1)) |->
                  RunLen(a, b, p[1], p[2], ahi, bhi)], alo, blo)

RECURSIVE MatchCount(_, _, _, _, _, _)
RECURSIVE MatchAround(_, _, _, _, _, _, _)
\* get_matching_blocks: the total size of the matching blocks, found by
\* splitting around the longest match and matching to its left and right.
MatchCount(a, b, alo, ahi, blo, bhi) ==
    MatchAround(a, b, alo, ahi, blo, bhi, FindLongestMatch(a, b, alo, ahi, blo, bhi))

\* The matches of a[alo..ahi) and b[blo..bhi) given their longest match x
MatchAround(a, b, alo, ahi, blo, bhi, x) ==
    IF x[3] = 0 THEN 0
    ELSE x[3]
         + (IF alo < x[1] /\ blo < x[2]
            THEN MatchCount(a, b, alo, x[1], blo, x[2]) ELSE 0)
         + (IF x[1] + x[3] < ahi /\ x[2] + x[3] < bhi
            THEN MatchCount(a, b, x[1] + x[3], ahi, x[2] + x[3], bhi) ELSE 0)

\* Number of occurrences of c in q
CountOf(q, c) == Cardinality({n \in 1..Len(q) : q[n] = c})

Min(x, y) == IF x <= y THEN x ELSE y

RECURSIVE SumOver(_, _)
SumOver(S, f) ==
    IF S = {} THEN 0
    ELSE LET c == CHOOSE c \in S : TRUE IN f[c] + SumOver(S \ {c}, f)

\* _calculate_ratio(matches, length) as the fraction <<num, den>>
CalculateRatio(matches, length) ==
    IF length > 0 THEN <<2 * matches, length>> ELSE <<1, 1>>

\* SequenceMatcher.ratio()
Ratio(a, b) ==
    CalculateRatio(MatchCount(a, b, 1, Len(a) + 1, 1, Len(b) + 1), Len(a) + Len(b))

\* SequenceMatcher.quick_ratio(): an upper bound from the character counts
QuickRatio(a, b) ==
    LET cs == {a[n] : n \in 1..Len(a)}
        common == [c \in cs |-> Min(CountOf(a, c), CountOf(b, c))]
    IN  CalculateRatio(SumOver(cs, common), Len(a) + Len(b))

\* SequenceMatcher.real_quick_ratio(): an upper bound from the lengths
RealQuickRatio(a, b) ==
    CalculateRatio(Min(Len(a), Len(b)), Len(a) + Len(b))

\* The similarity cutoff 0.6, in tenths
CutoffTenths == 6

\* r >= cutoff, for a ratio r = <<num, den>>
AtLeastCutoff(r) == 10 * r[1] >= CutoffTenths * r[2]

\* r1 < r2 for two ratios
RatioLess(r1, r2) == r1[1] * r2[2] < r2[1] * r1[2]

\* ratio() of every name a registry may hold (seq1) against every name that
\* may be asked for (seq2)
Similarity ==
    [w \in RequestedNames \cup RegisteredNames \cup ReservedNames |->
        [x \in RegisteredNames \cup ReservedNames |-> Ratio(Chars(x), Chars(w))]]

\* The three tests of get_close_matches on candidate a for word b
PassesTests(a, b, ratio) ==
    /\ AtLeastCutoff(RealQuickRatio(a, b))
    /\ AtLeastCutoff(QuickRatio(a, b))
    /\ AtLeastCutoff(ratio)

\* Whether difflib.get_close_matches keeps candidate x for word
PassesCutoff(word, x) == PassesTests(Chars(x), Chars(word), Similarity[word][x])

\* (rx, x) < (ry, y) as Python orders the scored candidates
PairLess(rx, x, ry, y) == RatioLess(rx, ry) \/ (rx = ry /\ StrLess(x, y))

ScoredLess(word, x, y) == PairLess(Similarity[word][x], x, Similarity[word][y], y)

\* heapq.nsmallest(1, result) in the place of nlargest
Smallest(word, result) ==
    IF result = {} THEN << >>
    ELSE <<CHOOSE x \in result : \A y \in result \ {x} : ScoredLess(word, x, y)>>

\* heapq.nlargest(1, result): the largest scored candidate, if there is one
Largest(word, result) ==
    IF result = {} THEN << >>
    ELSE <<CHOOSE x \in result : \A y \in result \ {x} : ScoredLess(word, y, x)>>

\* difflib.get_close_matches(word, possibilities, n=1, cutoff=0.6): the
\* candidates that pass the cutoff, the largest (ratio, name) first, cut to one.
GetCloseMatches(word, possibilities) ==
    Largest(word, {x \in possibilities : PassesCutoff(word, x)})

(***************************************************************************)
(* The registry.  An agent object has the name it declares and an          *)
(* identity; two objects may declare the same name.                        *)
(***************************************************************************)
AgentObjs ==
    {[name |-> n, id |-> 1] : n \in RegisteredNames}
        \cup {[name |-> "ExtractionAgent", id |-> 2]}

\* What _get_agent_fuzzy returns for "no agent" (None)
NoAgent == [name |-> "", id |-> 0]

EmptyRegistry == [n \in {} |-> NoAgent]

\* register_agent with setdefault: the first agent of a name is kept
RegisterAgentFirstKept(reg, agent) ==
    [n \in DOMAIN reg \cup {agent.name} |-> IF n \in DOMAIN reg THEN reg[n] ELSE agent]

\* register_agent: self.agents[agent.name] = agent
RegisterAgent(reg, agent) ==
    [n \in DOMAIN reg \cup {agent.name} |-> IF n = agent.name THEN agent ELSE reg[n]]

\* Lines 34-39: the agent of the best match, if there is one
FuzzyMatch(reg, matches) ==
    IF Len(matches) > 0
    THEN [how |-> "fuzzy", agent |-> reg[matches[1]]]
    ELSE [how |-> "none", agent |-> NoAgent]

\* _get_agent_fuzzy(name) without the lookup of lines 27-28
GetAgentFuzzyOnly(reg, name) ==
    IF ~IsStr(name) THEN [how |-> "raise", agent |-> NoAgent]
    ELSE FuzzyMatch(reg, GetCloseMatches(name[2], DOMAIN reg))

\* _get_agent_fuzzy(name).  how tells the path taken: "exact" (line 28),
\* "fuzzy" (line 37, after the warning is logged), "none" (line 39), or
\* "raise": a name that is not a str is no key of the registry and makes
\* difflib raise TypeError when it iterates over it.
GetAgentFuzzy(reg, name) ==
    IF ~IsStr(name) THEN [how |-> "raise", agent |-> NoAgent]
    ELSE IF name[2] \in DOMAIN reg THEN [how |-> "exact", agent |-> reg[name[2]]]
    ELSE FuzzyMatch(reg, GetCloseMatches(name[2], DOMAIN reg))

\* One _get_agent_fuzzy call: the name asked for, the registry it was looked
\* up in, the path taken and the agent returned
Lookup(name, reg, how, agent) ==
    [name |-> name, registry |-> reg, how |-> how, agent |-> agent]

NoLookup == Lookup(PyNone, EmptyRegistry, "", NoAgent)

NoResolution ==
    [name |-> PyNone, registry |-> EmptyRegistry, how |-> "", agent |-> NoAgent,
     before |-> NoLookup]

(***************************************************************************)
(* The backend and plan generation.                                        *)
(***************************************************************************)
UserQueries == {"Explain transformers"}

Instructions == {"Summarize"}

\* A step record of a plan: any of its three fields may be absent.
MkStep(agent, instruction, input_data) ==
    PyDict((IF agent = "" THEN << >> ELSE << <<"agent", PyStr(agent)>> >>)
           \o (IF instruction = "" THEN << >>
               ELSE << <<"instruction", PyStr(instruction)>> >>)
           \o (IF input_data = "" THEN << >>
               ELSE << <<"input_data", PyStr(input_data)>> >>))

\* Names the plans of the model ask for ("" stands for no agent field)
PlanAgentFields == {"", "ExtractionAgent", "ExtractoinAgent", "SummaryAgent"}

PlanInputFields == {"", "USER_QUERY", "PREVIOUS_RESULT"}

\* An input_data the system prompt does not offer
OtherInputField == "user_query"

\* The elements a plan may hold: step records with an instruction, two
\* records without one, and an element that is no record at all.
StepUniverse ==
    {MkStep(a, ins, src) : a \in PlanAgentFields, ins \in Instructions,
                           src \in PlanInputFields}
        \cup {MkStep("ExtractionAgent", "", ""), MkStep("", "", "")}
        \cup {MkStep("ExtractionAgent", "Summarize", OtherInputField)}
        \cup {PyStr("Summarize the text")}

RECURSIVE SeqsUpTo(_, _)
\* The sequences over S of length at most n
SeqsUpTo(S, n) ==
    IF n = 0 THEN {<< >>}
    ELSE LET shorter == SeqsUpTo(S, n - 1)
         IN  shorter \cup {Append(q, x) : q \in {r \in shorter : Len(r) = n - 1}, x \in S}

Plans == SeqsUpTo(StepUniverse, MaxSteps)

\* What llm_client.generate may do: raise (a transport failure), or return
\* text.  Text that is a JSON document is given by the value it denotes:
\* <<"json", v>>; other text, the empty string included, is <<"text", s>>.
PlanResponses ==
    {<<"raise", "Ollama API Error">>, <<"text", "">>, <<"text", "Sure, here is a plan">>}
        \cup {<<"json", PyList(<< >>)>>}
        \cup {<<"json", PyDict(<< <<"plan", PyStr("none")>> >>)>>}
        \cup {<<"json", PyDict(<< <<"steps", PyNone>> >>)>>}
        \cup {<<"json", PyDict(<< <<"steps", PyList(q)>> >>)>> : q \in Plans}

\* json.loads(text): <<"ok", value>> or <<"raise", message>>
JsonLoads(response) ==
    IF response[1] = "json" THEN <<"ok", response[2]>>
    ELSE <<"raise", "Expecting value: line 1 column 1 (char 0)">>

\* Line 68 as plan.get("steps"), without the default
GetStepsNoDefault(plan) ==
    IF plan[1] = "raise" THEN plan
    ELSE IF ~IsDict(plan[2])
    THEN <<"raise", "'list' object has no attribute 'get'">>
    ELSE <<"ok", DictGet(plan[2], "steps", PyNone)>>

\* Line 68: plan.get("steps", []), an AttributeError when plan is no dict
GetSteps(plan) ==
    IF plan[1] = "raise" THEN plan
    ELSE IF ~IsDict(plan[2])
    THEN <<"raise", "'list' object has no attribute 'get'">>
    ELSE <<"ok", DictGet(plan[2], "steps", PyList(<< >>))>>

\* plan_task, lines 65-71: <<"ok", steps>> or <<"raise", message>>
PlanTask(response) ==
    IF response[1] = "raise" THEN <<"raise", response[2]>>
    ELSE GetSteps(JsonLoads(response))

\* Line 81: len(steps) raises TypeError when steps is no list
CheckLen(r) ==
    IF r[1] = "ok" /\ ~IsList(r[2])
    THEN <<"raise", "object of type 'NoneType' has no len()">>
    ELSE r

\* The try block of run, lines 79-83: planning, then len(steps)
TryPlan(response) == CheckLen(PlanTask(response))

\* Line 83 without the "Planning failed: " prefix
PlanningErrorBare(message) == [k \in {"error"} |-> PyStr(message)]

\* The value of line 83
PlanningError(message) ==
    [k \in {"error"} |-> PyStr("Planning failed: " \o message)]

(***************************************************************************)
(* The execution loop of run, lines 85-140.                                *)
(***************************************************************************)
\* f"step_{i}_<suffix>"
StepKey(n, suffix) == "step_" \o ToString(n) \o "_" \o suffix

\* sub in s, for two strings given by their characters
Contains(sub, s) ==
    \E k \in 0..(Len(s) - Len(sub)) : \A n \in 1..Len(sub) : s[k + n] = sub[n]

\* Line 85
InitialContext(query) == [k \in {"original_query"} |-> PyStr(query)]

\* Lines 106-113 with a step that names no input_data given the user query
ContentToProcessDefaultQuery(input_source, last, query) ==
    IF input_source \in {PyStr("USER_QUERY"), PyStr("")} THEN <<"ok", PyStr(query)>>
    ELSE IF IsDict(last)
    THEN IF HasKey(last, "extracted_data")
         THEN IF Serializable(GetKey(last, "extracted_data"))
              THEN <<"ok", PyStr(JsonDumps(GetKey(last, "extracted_data")))>>
              ELSE <<"raise", "Object of type object is not JSON serializable">>
         ELSE IF HasKey(last, "analysis") THEN <<"ok", GetKey(last, "analysis")>>
         ELSE <<"ok", PyStr(Str(last))>>
    ELSE <<"ok", last>>

\* Lines 106-113 with str in the place of json.dumps on line 113
ContentToProcessStr(input_source, last, query) ==
    IF input_source = PyStr("USER_QUERY") THEN <<"ok", PyStr(query)>>
    ELSE IF IsDict(last)
    THEN IF HasKey(last, "extracted_data")
         THEN <<"ok", PyStr(Str(GetKey(last, "extracted_data")))>>
         ELSE IF HasKey(last, "analysis") THEN <<"ok", GetKey(last, "analysis")>>
         ELSE <<"ok", PyStr(Str(last))>>
    ELSE <<"ok", last>>

\* Lines 106-113 with line 113 as an elif of line 112
ContentToProcessElif(input_source, last, query) ==
    IF input_source = PyStr("USER_QUERY") THEN <<"ok", PyStr(query)>>
    ELSE IF IsDict(last)
    THEN IF HasKey(last, "analysis") THEN <<"ok", GetKey(last, "analysis")>>
         ELSE IF HasKey(last, "extracted_data")
         THEN IF Serializable(GetKey(last, "extracted_data"))
              THEN <<"ok", PyStr(JsonDumps(GetKey(last, "extracted_data")))>>
              ELSE <<"raise", "Object of type object is not JSON serializable">>
         ELSE <<"ok", PyStr(Str(last))>>
    ELSE <<"ok", last>>

\* Lines 106-113: <<"ok", content_to_process>>, or <<"raise", message>> when
\* json.dumps meets a value it cannot serialise.
ContentToProcess(input_source, last, query) ==
    IF input_source = PyStr("USER_QUERY") THEN <<"ok", PyStr(query)>>
    ELSE IF IsDict(last)
    THEN LET generic == PyStr(Str(last))
             analysed == IF HasKey(last, "analysis") THEN GetKey(last, "analysis")
                         ELSE generic
         IN  IF HasKey(last, "extracted_data")
             THEN IF Serializable(GetKey(last, "extracted_data"))
                  THEN <<"ok", PyStr(JsonDumps(GetKey(last, "extracted_data")))>>
                  ELSE <<"raise", "Object of type object is not JSON serializable">>
             ELSE <<"ok", analysed>>
    ELSE <<"ok", last>>

\* Line 123 with the test "Extraction" == agent.name
DefaultFieldsExactName(agent) ==
    IF agent.name = "Extraction"
    THEN <<"summary", "entities">> ELSE << >>

\* Line 123
DefaultFields(agent) ==
    IF Contains(Chars("Extraction"), Chars(agent.name))
    THEN <<"summary", "entities">> ELSE << >>

\* Lines 116-125 with the instruction in the content slot
PayloadContentIsInstruction(instruction, ctx, content, agent) ==
    [instruction |-> instruction,
     context |-> ctx,
     text |-> content,
     content |-> instruction,
     goal |-> instruction,
     fields |-> DefaultFields(agent),
     criteria |-> instruction]

\* Lines 116-125
Payload(instruction, ctx, content, agent) ==
    [instruction |-> instruction,
     context |-> ctx,
     text |-> content,
     content |-> content,
     goal |-> instruction,
     fields |-> DefaultFields(agent),
     criteria |-> instruction]

\* Line 98
NotFoundMessage(agent_name) == "Agent " \o Str(agent_name) \o " not found"

\* Lines 98 and 138 with one key for every step's error
RecordErrorUnindexed(ctx, n, message) == MapSet(ctx, "step_error", PyStr(message))

\* Lines 98 and 138 with the 1-based step number of the log lines as index
RecordErrorOneBased(ctx, n, message) ==
    MapSet(ctx, StepKey(n + 1, "error"), PyStr(message))

\* Lines 98 and 138: context[f"step_{i}_error"] = message
RecordError(ctx, n, message) == MapSet(ctx, StepKey(n, "error"), PyStr(message))

\* Lines 130-132 with a result holding the key error recorded as a failure
RecordResultErrorAware(ctx, n, agent, result) ==
    IF IsDict(result) /\ HasKey(result, "error")
    THEN MapSet(ctx, StepKey(n, "error"), GetKey(result, "error"))
    ELSE MapSet(MapSet(MapSet(ctx, StepKey(n, "result"), result),
                       StepKey(n, "agent"), PyStr(agent.name)),
                agent.name, result)

\* Lines 130-132 with setdefault on line 132: the slot keeps its first result
RecordResultFirstKept(ctx, n, agent, result) ==
    MapSet(MapSet(MapSet(ctx, StepKey(n, "result"), result),
                  StepKey(n, "agent"), PyStr(agent.name)),
           agent.name, IF agent.name \in DOMAIN ctx THEN ctx[agent.name] ELSE result)

\* Lines 130-132 without line 132
RecordResultNoSlot(ctx, n, agent, result) ==
    MapSet(MapSet(ctx, StepKey(n, "result"), result),
           StepKey(n, "agent"), PyStr(agent.name))

\* Lines 130-132 without line 131
RecordResultUntracked(ctx, n, agent, result) ==
    MapSet(MapSet(ctx, StepKey(n, "result"), result), agent.name, result)

\* Lines 130-132 with the 1-based step number of the log lines as index
RecordResultOneBased(ctx, n, agent, result) ==
    MapSet(MapSet(MapSet(ctx, StepKey(n + 1, "result"), result),
                  StepKey(n + 1, "agent"), PyStr(agent.name)),
           agent.name, result)

\* Lines 130-132
RecordResult(ctx, n, agent, result) ==
    MapSet(MapSet(MapSet(ctx, StepKey(n, "result"), result),
                  StepKey(n, "agent"), PyStr(agent.name)),
           agent.name, result)

\* What agent.process may do with a payload: return a value or raise.  The
\* coordinator knows an agent only as a BaseAgent, so any agent may do any
\* of these: a dict with analysis, with extracted_data, with both, with an
\* error key only, a value that is no dict (an agent returning json.loads of
\* the model's text), a dict json.dumps cannot serialise, or an exception.
ProcessResults ==
    {PyDict(<< <<"analysis", PyStr("A summary")>> >>),
     PyDict(<< <<"extracted_data", PyDict(<< <<"summary", PyStr("S")>> >>)>> >>),
     PyDict(<< <<"analysis", PyStr("A summary")>>,
               <<"extracted_data", PyDict(<< <<"summary", PyStr("S")>> >>)>> >>),
     PyDict(<< <<"error", PyStr("Ollama API Error")>> >>),
     PyList(<<PyStr("first"), PyStr("second")>>),
     PyDict(<< <<"extracted_data", PyObj>> >>)}

ProcessOutcomes ==
    {<<"return", r>> : r \in ProcessResults} \cup {<<"raise", "agent failure">>}

(***************************************************************************)
(* The technology-watch cycle of src/agent.py: run_full_cycle and its four *)
(* phases.  A phase is given what the functions it calls do (return or     *)
(* raise); lists are known by their length.                                *)
(***************************************************************************)
Phases == <<"search", "extraction", "analysis", "synthesis">>

\* The most results search_nlp_papers finds in the model
MaxFound == 3

\* config.MAX_SEARCH_RESULTS, by default
MAX_SEARCH_RESULTS == 5

\* cycle_data['errors'].append(message)
AddError(data, message) == [data EXCEPT !.errors = Append(@, message)]

\* cycle_data['phases_completed'].append(phase)
Completed(data, phase) == [data EXCEPT !.phases_completed = Append(@, phase)]

\* The number of items of the sequence that are x
CountOf2(items, x) == Cardinality({k \in 1..Len(items) : items[k] = x})

\* A report: the status and error message of its metadata, the documents
\* counted in its summary and its global insights
ErrorReport(message) ==
    [status |-> "error", error_message |-> message,
     total_documents_analyzed |-> 0, global_insights |-> "absent"]
NoReport ==
    [status |-> "", error_message |-> "",
     total_documents_analyzed |-> 0, global_insights |-> "absent"]

\* _create_error_report, lines 265-281
CreateErrorReport(data, message) == ErrorReport(message)

\* What search_nlp_papers and the save of its results do
SearchOutcomes ==
    {[search |-> <<"return", n>>, save |-> sv] :
        n \in 0..MaxFound, sv \in {"ok", "raise"}}
        \cup {[search |-> <<"raise", 0>>, save |-> "ok"]}

\* _search_phase, lines 91-112: the length of the list returned
SearchPhase(data, o) ==
    IF o.search[1] = "raise"
    THEN [data |-> AddError(data, "Erreur phase recherche: search"), out |-> 0]
    ELSE IF o.search[2] = 0 THEN [data |-> data, out |-> 0]
    ELSE IF o.save = "raise"
    THEN [data |-> AddError(data, "Erreur phase recherche: save"), out |-> 0]
    ELSE [data |-> Completed(data, "search"), out |-> o.search[2]]

\* What happens to one search result: content extracted, nothing extracted,
\* its URL refused, or an exception
ExtractionItems == {"content", "nothing", "invalid", "raise"}

Least(a, b) == IF a <= b THEN a ELSE b

\* What the extraction does for found results: one outcome for each result
\* of search_results[:MAX_SEARCH_RESULTS], and whether the phase itself fails
ExtractionOutcomes(found) ==
    {[items |-> q, fails |-> f] :
        q \in [1..Least(found, MAX_SEARCH_RESULTS) -> ExtractionItems],
        f \in BOOLEAN}

\* _extraction_phase with the phase recorded for each content extracted
ExtractionPhasePerItem(data, o) ==
    IF o.fails
    THEN [data |-> AddError(data, "Erreur phase extraction"), out |-> 0]
    ELSE [data |-> [data EXCEPT !.phases_completed =
                       @ \o [k \in 1..CountOf2(o.items, "content") |-> "extraction"]],
          out |-> CountOf2(o.items, "content")]

\* _extraction_phase, lines 114-166
ExtractionPhase(data, o) ==
    IF o.fails
    THEN [data |-> AddError(data, "Erreur phase extraction"), out |-> 0]
    ELSE IF CountOf2(o.items, "content") > 0
    THEN [data |-> Completed(data, "extraction"), out |-> CountOf2(o.items, "content")]
    ELSE [data |-> data, out |-> 0]

AnalysisItems == {"analysed", "raise"}

\* What the analysis does for the extracted contents, one outcome each, and
\* what save_analysis_results does
AnalysisOutcomes(extracted) ==
    {[items |-> q, save |-> sv] :
        q \in [1..extracted -> AnalysisItems], sv \in {"ok", "raise"}}

\* analysis_stats at the end of the loop of lines 176-204: a document whose
\* analysis raises is counted as failed and, by the continue of line 202,
\* not in the total
AnalysisStats(items) ==
    [total |-> CountOf2(items, "analysed"),
     success |-> CountOf2(items, "analysed"),
     failed |-> CountOf2(items, "raise")]

\* _analysis_phase, lines 168-219
AnalysisPhase(data, o) ==
    IF CountOf2(o.items, "analysed") = 0 THEN [data |-> data, out |-> 0]
    ELSE IF o.save = "raise"
    THEN [data |-> AddError(data, "Erreur phase analyse"), out |-> 0]
    ELSE [data |-> [Completed(data, "analysis") EXCEPT
                       !.analysis_stats = AnalysisStats(o.items)],
          out |-> CountOf2(o.items, "analysed")]

\* What generate_tech_watch_report, extract_key_insights and save_reports do
SynthesisOutcomes ==
    {[generate |-> g, insights |-> ins, save |-> sv] :
        g \in {"report", "raise"}, ins \in {"ok", "raise"},
        sv \in {"true", "false", "raise"}}

\* The report generate_tech_watch_report builds for the analysed documents
\* (its metadata has no status), with the insights of lines 237-243
Report(analyzed, o) ==
    [status |-> "", error_message |-> "",
     total_documents_analyzed |-> analyzed,
     global_insights |-> IF o.insights = "ok" THEN "insights" ELSE "empty"]

\* _synthesis_phase, lines 221-263
SynthesisPhase(data, analyzed, o) ==
    IF o.generate = "raise"
    THEN [data |-> AddError(data, "Erreur phase synthese"),
          out |-> CreateErrorReport(data, "Erreur phase synthese")]
    ELSE [data |-> IF o.save = "true" THEN Completed(data, "synthesis") ELSE data,
          out |-> Report(analyzed, o)]

\* cycle_data of line 53, and the cycle before run_full_cycle is called.
\* started and returned are history: the phases entered, in order, and the
\* length of what each of the three leading phases returned.
NoStats == [total |-> 0, success |-> 0, failed |-> 0]

\* The keywords a caller may give; << >> stands for no custom keywords
CustomKeywords == {<< >>, <<"transformers">>}

\* config.NLP_KEYWORDS, shortened
NLP_KEYWORDS == <<"natural language processing">>

NoCycle ==
    [pc |-> "idle", keywords_used |-> << >>, phases_completed |-> << >>,
     errors |-> << >>, analysis_stats |-> NoStats,
     started |-> << >>, returned |-> << >>, input |-> 0,
     report |-> NoReport, raised |-> FALSE]

(***************************************************************************)
(* The four agents of src/agents: process(input_data), given what the      *)
(* backend does when the agent calls llm_client.generate.                  *)
(***************************************************************************)
AgentKinds ==
    {"DocumentAnalysisAgent", "ExtractionAgent", "ReasoningAgent", "ValidationAgent"}

\* The keys each process reads by subscript, in the order it reads them
RequiredKeys(agent) ==
    CASE agent = "DocumentAnalysisAgent" -> <<"text">>
      [] agent = "ExtractionAgent" -> <<"text", "fields">>
      [] agent = "ReasoningAgent" -> <<"context", "goal">>
      [] agent = "ValidationAgent" -> <<"content", "criteria">>

\* validate_input(input_data, required_keys): False when a key is missing
ValidateInput(input, required) ==
    \A k \in 1..Len(required) : required[k] \in DOMAIN input

\* input_data[key] for the required keys in turn: the KeyError of the first
\* key that is missing, whose str is the repr of the key
FirstMissing(input, required) ==
    required[CHOOSE k \in 1..Len(required) :
                /\ required[k] \notin DOMAIN input
                /\ \A j \in 1..(k - 1) : required[j] \in DOMAIN input]

KeyErrorMessage(key) == "'" \o key \o "'"

\* text[:10000] and text[:8000] need a value that can be sliced
Sliceable(v) == v[1] \in {"str", "list"}

\* Whether building the prompt raises, and with what: the two agents that
\* slice the text raise TypeError on a text that is None
PromptError(agent, input) ==
    IF agent \in {"DocumentAnalysisAgent", "ExtractionAgent"} /\ ~Sliceable(input["text"])
    THEN "'NoneType' object is not subscriptable"
    ELSE ""

\* What llm_client.generate may do for an agent: raise, or return text; text
\* that is a JSON document is given by the value it denotes.
AgentResponses ==
    {<<"raise", "Ollama API Error">>,
     <<"text", "">>,
     <<"text", "Sure, here is the answer">>,
     <<"json", PyDict(<< <<"thought_process", PyStr("think")>>,
                         <<"steps", PyList(<<PyStr("one")>>)>> >>)>>,
     <<"json", PyList(<<PyStr("one"), PyStr("two")>>)>>,
     <<"json", PyStr("done")>>,
     <<"json", PyInt(42)>>,
     <<"json", PyNone>>}

\* The text generate returned
ResponseText(response) ==
    IF response[1] = "json" THEN JsonDumps(response[2]) ELSE response[2]

\* return {"error": str(e)}
ErrorResult(message) == PyDict(<< <<"error", PyStr(message)>> >>)

\* doc_analysis_agent.py line 45
AnalysisResult(response) == PyDict(<< <<"analysis", PyStr(ResponseText(response))>> >>)

\* extraction_agent.py line 55 without the error key
ExtractionFallbackNoError(response) ==
    PyDict(<< <<"extracted_data", PyDict(<< >>)>>,
              <<"raw_response", PyStr(ResponseText(response))>> >>)

\* extraction_agent.py line 55
ExtractionFallback(response) ==
    PyDict(<< <<"extracted_data", PyDict(<< >>)>>,
              <<"raw_response", PyStr(ResponseText(response))>>,
              <<"error", PyStr("JSON Decode Error")>> >>)

\* extraction_agent.py lines 49-55
ExtractionResult(response, loaded) ==
    IF loaded[1] = "ok" THEN PyDict(<< <<"extracted_data", loaded[2]>> >>)
    ELSE ExtractionFallback(response)

\* reasoning_agent.py lines 50-54 and validation_agent.py lines 48-54:
\* whatever json.loads gives is returned
LoadedResult(loaded) ==
    IF loaded[1] = "ok" THEN loaded[2] ELSE ErrorResult(loaded[2])

\* The try block of process
TryBackend(agent, response) ==
    IF response[1] = "raise" THEN ErrorResult(response[2])
    ELSE CASE agent = "DocumentAnalysisAgent" -> AnalysisResult(response)
           [] agent = "ExtractionAgent" -> ExtractionResult(response, JsonLoads(response))
           [] OTHER -> LoadedResult(JsonLoads(response))

\* process(input_data): whether the backend was called, and <<"return", value>>
\* or <<"raise", message>>
ProcessOf(agent, input, response) ==
    IF ~ValidateInput(input, RequiredKeys(agent))
    THEN [called |-> FALSE,
          outcome |-> <<"raise", KeyErrorMessage(FirstMissing(input, RequiredKeys(agent)))>>]
    ELSE IF PromptError(agent, input) # ""
    THEN [called |-> FALSE, outcome |-> <<"raise", PromptError(agent, input)>>]
    ELSE [called |-> TRUE, outcome |-> <<"return", TryBackend(agent, response)>>]

\* The payload run builds for an agent (lines 116-125), as process sees it
PayloadKeys ==
    {"instruction", "context", "text", "content", "goal", "fields", "criteria"}

\* Keys some agent requires
RequirableKeys == {"text", "fields", "context", "goal", "content", "criteria"}

TextValues == {PyStr("Transformers are models"), PyNone}

\* The inputs of the model: the coordinator's payload for the agent, with
\* any of the keys an agent requires left out
AgentInputs(agent) ==
    {[k \in PayloadKeys \ missing |->
         Payload(PyStr("Summarize"), InitialContext("Explain transformers"), text,
                 [name |-> agent, id |-> 1])[k]] :
        missing \in SUBSET RequirableKeys, text \in TextValues}

(***************************************************************************)
(* The state machine.                                                      *)
(***************************************************************************)
\* No agent's process has been called on its own
(***************************************************************************)
(* Runs driven concurrently on one coordinator.  context, last_result,     *)
(* steps and the loop index are locals of run (lines 80-88), so every run  *)
(* has its own; self.agents is the one thing the runs share.               *)
(***************************************************************************)
MaxRuns == 2

RunIds == 1..MaxRuns

\* A run that has not been started.  registry and outcomes are history: the
\* registry when run was called and what the agents' process did, in order.
IdleRun ==
    [pc |-> "idle", user_query |-> "", plan_response |-> <<"", "">>,
     steps |-> << >>, i |-> 0, context |-> EmptyMap, last_result |-> PyNone,
     agent |-> NoAgent, payload |-> EmptyMap, ret |-> EmptyMap, exc |-> "",
     registry |-> EmptyRegistry, outcomes |-> << >>]

NoRuns == [r \in RunIds |-> IdleRun]

\* The run r goes on with its own locals and touches no other run's, the
\* context and last_result being attributes of the coordinator
OwnedBySelf(rs, r, run) ==
    [q \in RunIds |->
        IF q = r THEN run
        ELSE [rs[q] EXCEPT !.context = run.context,
                           !.last_result = run.last_result]]

\* The run r goes on with its own locals and touches no other run's
Owned(rs, r, run) == [rs EXCEPT ![r] = run]

\* What the hosts ask, the plans the backend answers with and what the
\* agents' process does, in the concurrent runs
ConcurrentQueries == {"Explain transformers", "Compare models"}

ConcurrentAgents ==
    {[name |-> "ExtractionAgent", id |-> 1], [name |-> "ValidationAgent", id |-> 1]}

ConcurrentSteps ==
    {MkStep("ExtractoinAgent", "Summarize", "PREVIOUS_RESULT"),
     MkStep("SummaryAgent", "Summarize", "USER_QUERY")}

ConcurrentPlanResponses ==
    {<<"raise", "Ollama API Error">>}
        \cup {<<"json", PyDict(<< <<"steps", PyList(q)>> >>)>> :
                 q \in SeqsUpTo(ConcurrentSteps, MaxSteps)}

ConcurrentOutcomes ==
    {<<"return", PyDict(<< <<"extracted_data", PyDict(<< <<"summary", PyStr("S")>> >>)>> >>)>>,
     <<"raise", "agent failure">>}

\* Lines 79-86 of one run, given the backend's answer
Planned(run, response) ==
    IF TryPlan(response)[1] = "raise"
    THEN [run EXCEPT !.plan_response = response, !.pc = "returned",
                     !.ret = PlanningError(TryPlan(response)[2])]
    ELSE [run EXCEPT !.plan_response = response,
                     !.steps = TryPlan(response)[2][2],
                     !.context = InitialContext(run.user_query),
                     !.last_result = PyStr(run.user_query),
                     !.pc = IF Len(TryPlan(response)[2][2]) = 0 THEN "returned" ELSE "loop",
                     !.ret = IF Len(TryPlan(response)[2][2]) = 0
                             THEN InitialContext(run.user_query) ELSE @]

\* The iteration of one run ends with the context ctx (line 88 or 140)
IterationEnded(run, ctx) ==
    [run EXCEPT !.context = ctx, !.i = @ + 1,
                !.pc = IF run.i + 1 = Len(run.steps) THEN "returned" ELSE "loop",
                !.ret = IF run.i + 1 = Len(run.steps) THEN ctx ELSE @]

\* An exception escapes one run
Escaped(run, message) == [run EXCEPT !.pc = "raised", !.exc = message]

\* Lines 116-127 of one run: the payload is built and process is invoked
Invoking(run, step, agent, content) ==
    [run EXCEPT !.pc = "calling", !.agent = agent,
                !.payload = Payload(DictGet(step, "instruction", PyNone),
                                    run.context, content, agent)]

\* Lines 95-113 of one run, for the step record the loop is at
StepResolved(reg, run, step, name, r, c) ==
    IF r.how = "raise" THEN Escaped(run, "'NoneType' object is not iterable")
    ELSE IF r.how = "none"
    THEN IterationEnded(run, RecordError(run.context, run.i, NotFoundMessage(name)))
    ELSE IF c[1] = "raise"
    THEN IterationEnded(run, RecordError(run.context, run.i, c[2]))
    ELSE Invoking(run, step, r.agent, c[2])

\* Lines 88-127 of one run: from the head of the loop to the process call,
\* the end of the iteration or the escaping exception
StepBegun(reg, run) ==
    IF ~IsDict(run.steps[run.i + 1])
    THEN Escaped(run, "'str' object has no attribute 'get'")
    ELSE StepResolved(reg, run, run.steps[run.i + 1],
                      DictGet(run.steps[run.i + 1], "agent", PyNone),
                      GetAgentFuzzy(reg, DictGet(run.steps[run.i + 1], "agent", PyNone)),
                      ContentToProcess(DictGet(run.steps[run.i + 1], "input_data", PyStr("")),
                                       run.last_result, run.user_query))

\* Lines 127-138 of one run: process returns or raises
StepEnded(run, outcome) ==
    IF outcome[1] = "return"
    THEN [IterationEnded(run, RecordResult(run.context, run.i, run.agent, outcome[2]))
             EXCEPT !.last_result = outcome[2], !.outcomes = Append(@, outcome)]
    ELSE [IterationEnded(run, RecordError(run.context, run.i, outcome[2]))
             EXCEPT !.outcomes = Append(@, outcome)]

RECURSIVE LoopAlone(_, _, _)
\* The loop of one run executed with nothing in between, the agents'
\* process doing in turn what outs says
LoopAlone(reg, run, outs) ==
    IF run.pc = "loop" THEN LoopAlone(reg, StepBegun(reg, run), outs)
    ELSE IF run.pc = "calling" /\ outs # << >>
    THEN LoopAlone(reg, StepEnded(run, Head(outs)), Tail(outs))
    ELSE run

\* run(query) executed alone in the registry reg, the backend answering
\* with response and the agents' process doing what outs says
RunAlone(reg, query, response, outs) ==
    LoopAlone(reg,
              Planned([IdleRun EXCEPT !.pc = "planning", !.user_query = query,
                                      !.registry = reg], response),
              outs)

NoProcessCall ==
    [agent |-> "", input |-> EmptyMap, response |-> <<"", "">>, valid |-> TRUE,
     called |-> FALSE, outcome |-> <<"", "">>]

Init ==
    /\ agents = EmptyRegistry
    /\ pc = "setup"
    /\ user_query = ""
    /\ steps = << >>
    /\ i = 0
    /\ context = EmptyMap
    /\ last_result = PyNone
    /\ ret = EmptyMap
    /\ exc = ""
    /\ calls = << >>
    /\ plan_calls = 0
    /\ plan_response = <<"", "">>
    /\ res = NoResolution
    /\ registrations = << >>
    /\ proc = NoProcessCall
    /\ cycle = NoCycle
    /\ runs = NoRuns

\* register_agent(agent), during setup
Register(agent) ==
    /\ pc = "setup"
    /\ agents' = RegisterAgent(agents, agent)
    /\ UNCHANGED <<pc, user_query, steps, i, context, last_result, ret, exc,
                   calls, plan_calls, plan_response, res,
                   registrations, proc, cycle, runs>>

\* run(user_query) starting from an empty registry
RunFresh(query) ==
    /\ pc = "setup"
    /\ pc' = "planning"
    /\ user_query' = query
    /\ agents' = EmptyRegistry
    /\ UNCHANGED <<steps, i, context, last_result, ret, exc, calls,
                   plan_calls, plan_response, res,
                   registrations, proc, cycle, runs>>

\* run(user_query) is called and plan_task asks the backend for a plan
Run(query) ==
    /\ pc = "setup"
    /\ pc' = "planning"
    /\ user_query' = query
    /\ UNCHANGED <<agents, steps, i, context, last_result, ret, exc, calls,
                   plan_calls, plan_response, res,
                   registrations, proc, cycle, runs>>

\* The backend answers (or fails): lines 65-71 and 79-86.  A plan of no
\* steps makes run return the context at once.
Plan(response) ==
    /\ pc = "planning"
    /\ plan_calls' = plan_calls + 1
    /\ plan_response' = response
    /\ \E r \in {TryPlan(response)} :
        IF r[1] = "raise"
        THEN /\ pc' = "returned"
             /\ ret' = PlanningError(r[2])
             /\ UNCHANGED <<steps, context, last_result>>
        ELSE /\ steps' = r[2][2]
             /\ context' = InitialContext(user_query)
             /\ last_result' = PyStr(user_query)
             /\ IF Len(r[2][2]) = 0
                THEN pc' = "returned" /\ ret' = InitialContext(user_query)
                ELSE pc' = "loop" /\ UNCHANGED ret
    /\ UNCHANGED <<agents, user_query, i, exc, calls, res, registrations, proc, cycle, runs>>

\* The step the loop is at, and what lines 89-91 read from it
CurStep == steps[i + 1]
AgentName == DictGet(CurStep, "agent", PyNone)
Instruction == DictGet(CurStep, "instruction", PyNone)
InputSource == DictGet(CurStep, "input_data", PyStr(""))

\* Line 95, and what it leaves in the history
Resolved == GetAgentFuzzy(agents, AgentName)
Resolution(name, r) ==
    [name |-> name, registry |-> agents, how |-> r.how, agent |-> r.agent,
     before |-> Lookup(res.name, res.registry, res.how, res.agent)]

\* Lines 106-113 for the step the loop is at
Content == ContentToProcess(InputSource, last_result, user_query)

\* The history entry of one agent.process call: the step, the agent, the
\* payload, the step's input source, last_result before the call, and what
\* process did
Call(n, agent, payload, source, last, outcome) ==
    [step |-> n, agent |-> agent, payload |-> payload, source |-> source,
     last |-> last, outcome |-> outcome]

\* The iteration ends with the context ctx: the loop goes on to the next
\* step, or run returns the context after the last one (line 140).
EndIteration(ctx) ==
    /\ context' = ctx
    /\ i' = i + 1
    /\ IF i + 1 = Len(steps)
       THEN pc' = "returned" /\ ret' = ctx
       ELSE pc' = "loop" /\ UNCHANGED ret

\* Line 89 on a plan element that is no mapping: AttributeError escapes run.
StepNotRecord ==
    /\ pc = "loop"
    /\ ~IsDict(CurStep)
    /\ pc' = "raised"
    /\ exc' = "'str' object has no attribute 'get'"
    /\ UNCHANGED <<agents, user_query, steps, i, context, last_result, ret,
                   calls, plan_calls, plan_response, res,
                   registrations, proc, cycle, runs>>

\* Line 95 raises: TypeError escapes run, outside the try of line 101.
StepResolveRaises ==
    /\ pc = "loop"
    /\ IsDict(CurStep)
    /\ \E r \in {Resolved} :
        /\ r.how = "raise"
        /\ res' = Resolution(AgentName, r)
    /\ pc' = "raised"
    /\ exc' = "'NoneType' object is not iterable"
    /\ UNCHANGED <<agents, user_query, steps, i, context, last_result, ret,
                   calls, plan_calls, plan_response,
                   registrations, proc, cycle, runs>>

\* Lines 96-99 with the message handed on to the next step as last_result
StepAgentNotFoundHandedOn ==
    /\ pc = "loop"
    /\ IsDict(CurStep)
    /\ \E r \in {Resolved} :
        /\ r.how = "none"
        /\ res' = Resolution(AgentName, r)
    /\ EndIteration(RecordError(context, i, NotFoundMessage(AgentName)))
    /\ last_result' = PyStr(NotFoundMessage(AgentName))
    /\ UNCHANGED <<agents, user_query, steps, exc, calls, plan_calls, plan_response,
                   registrations, proc, cycle, runs>>

\* Lines 96-99: no agent resolves
StepAgentNotFound ==
    /\ pc = "loop"
    /\ IsDict(CurStep)
    /\ \E r \in {Resolved} :
        /\ r.how = "none"
        /\ res' = Resolution(AgentName, r)
    /\ EndIteration(RecordError(context, i, NotFoundMessage(AgentName)))
    /\ UNCHANGED <<agents, user_query, steps, last_result, exc, calls, plan_calls, plan_response,
                   registrations, proc, cycle, runs>>

\* Lines 106-113 raise before the agent is called; lines 136-138 catch it
StepPayloadRaises ==
    /\ pc = "loop"
    /\ IsDict(CurStep)
    /\ \E r \in {Resolved} :
        /\ r.how \in {"exact", "fuzzy"}
        /\ res' = Resolution(AgentName, r)
    /\ \E c \in {Content} :
        /\ c[1] = "raise"
        /\ EndIteration(RecordError(context, i, c[2]))
    /\ UNCHANGED <<agents, user_query, steps, last_result, exc, calls, plan_calls, plan_response,
                   registrations, proc, cycle, runs>>

\* Lines 116-138 without line 134: last_result stays the user query
StepProcessLastKept(outcome) ==
    /\ pc = "loop"
    /\ IsDict(CurStep)
    /\ \E r \in {Resolved}, c \in {Content} :
        /\ r.how \in {"exact", "fuzzy"}
        /\ c[1] = "ok"
        /\ res' = Resolution(AgentName, r)
        /\ calls' = Append(calls,
                           Call(i, r.agent,
                                Payload(Instruction, context, c[2], r.agent),
                                InputSource, last_result, outcome))
        /\ IF outcome[1] = "return"
           THEN EndIteration(RecordResult(context, i, r.agent, outcome[2]))
           ELSE EndIteration(RecordError(context, i, outcome[2]))
    /\ UNCHANGED <<agents, user_query, steps, exc, plan_calls, plan_response,
                   registrations, proc, cycle, runs, last_result>>

\* Lines 116-138: the agent is called, and returns or raises
StepProcess(outcome) ==
    /\ pc = "loop"
    /\ IsDict(CurStep)
    /\ \E r \in {Resolved}, c \in {Content} :
        /\ r.how \in {"exact", "fuzzy"}
        /\ c[1] = "ok"
        /\ res' = Resolution(AgentName, r)
        /\ calls' = Append(calls,
                           Call(i, r.agent,
                                Payload(Instruction, context, c[2], r.agent),
                                InputSource, last_result, outcome))
        /\ IF outcome[1] = "return"
           THEN /\ EndIteration(RecordResult(context, i, r.agent, outcome[2]))
                /\ last_result' = outcome[2]
           ELSE /\ EndIteration(RecordError(context, i, outcome[2]))
                /\ UNCHANGED last_result
    /\ UNCHANGED <<agents, user_query, steps, exc, plan_calls, plan_response,
                   registrations, proc, cycle, runs>>

Next ==
    \/ \E agent \in AgentObjs : Register(agent)
    \/ \E query \in UserQueries : Run(query)
    \/ \E response \in PlanResponses : Plan(response)
    \/ StepNotRecord
    \/ StepResolveRaises
    \/ StepAgentNotFound
    \/ StepPayloadRaises
    \/ \E outcome \in ProcessOutcomes : StepProcess(outcome)

Spec == Init /\ [][Next]_vars

(***************************************************************************)
(* _get_agent_fuzzy on its own: any name is looked up in any registry the  *)
(* setup has built so far.                                                 *)
(***************************************************************************)
\* The names looked up: the names of the model, registered or not, and None
LookupNames ==
    {PyStr(n) : n \in RequestedNames \cup RegisteredNames} \cup {PyNone}

\* _get_agent_fuzzy(name) remembering a fuzzy match under the name asked for
ResolveRemembering(name) ==
    /\ pc = "setup"
    /\ \E r \in {GetAgentFuzzy(agents, name)} :
        /\ res' = Resolution(name, r)
        /\ agents' = IF r.how = "fuzzy"
                     THEN [n \in DOMAIN agents \cup {name[2]} |->
                              IF n = name[2] THEN r.agent ELSE agents[n]]
                     ELSE agents
    /\ UNCHANGED <<pc, user_query, steps, i, context, last_result, ret,
                   exc, calls, plan_calls, plan_response, registrations, proc, cycle, runs>>

\* _get_agent_fuzzy(name), lines 25-39
Resolve(name) ==
    /\ pc = "setup"
    /\ res' = Resolution(name, GetAgentFuzzy(agents, name))
    /\ UNCHANGED <<agents, pc, user_query, steps, i, context, last_result, ret,
                   exc, calls, plan_calls, plan_response,
                   registrations, proc, cycle, runs>>

NextResolve ==
    \/ \E agent \in AgentObjs : Register(agent)
    \/ \E name \in LookupNames : Resolve(name)

SpecResolve == Init /\ [][NextResolve]_vars

(***************************************************************************)
(* register_agent on its own, with the history of the registrations.  The  *)
(* history is kept only here, where the registry is compared with it.      *)
(***************************************************************************)
MaxRegistrations == 4

\* register_agent(agent), lines 20-23
RegisterLogged(agent) ==
    /\ pc = "setup"
    /\ Len(registrations) < MaxRegistrations
    /\ agents' = RegisterAgent(agents, agent)
    /\ registrations' = Append(registrations, agent)
    /\ UNCHANGED <<pc, user_query, steps, i, context, last_result, ret, exc,
                   calls, plan_calls, plan_response, res, proc, cycle, runs>>

NextRegister == \E agent \in AgentObjs : RegisterLogged(agent)

SpecRegister == Init /\ [][NextRegister]_vars

(***************************************************************************)
(* The run over any registry: register_agent accepts any name, the keys of *)
(* the execution context included.                                         *)
(***************************************************************************)
AnyAgentObjs == {[name |-> n, id |-> 1] : n \in {"ReasoningAgent"} \cup ReservedNames}

AnyStepUniverse ==
    {MkStep(a, "Summarize", "PREVIOUS_RESULT") :
        a \in {"", "ReasoningAgent", "SummaryAgent"} \cup ReservedNames}
        \cup {PyStr("Summarize the text")}

AnyPlanResponses ==
    {<<"raise", "Ollama API Error">>}
        \cup {<<"json", PyDict(<< <<"steps", PyList(q)>> >>)>> :
                 q \in SeqsUpTo(AnyStepUniverse, MaxSteps)}

NextAnyRegistry ==
    \/ \E agent \in AnyAgentObjs : Register(agent)
    \/ \E query \in UserQueries : Run(query)
    \/ \E response \in AnyPlanResponses : Plan(response)
    \/ StepNotRecord
    \/ StepResolveRaises
    \/ StepAgentNotFound
    \/ StepPayloadRaises
    \/ \E outcome \in ProcessOutcomes : StepProcess(outcome)

SpecAnyRegistry == Init /\ [][NextAnyRegistry]_vars

(***************************************************************************)
(* An agent's process on its own: any of the four agents, any input, any   *)
(* behaviour of the backend.                                               *)
(***************************************************************************)
ProcessCall(agent, input, response, r) ==
    [agent |-> agent, input |-> input, response |-> response,
     valid |-> ValidateInput(input, RequiredKeys(agent)),
     called |-> r.called, outcome |-> r.outcome]

\* agent.process(input_data).  The agents keep no state between calls, so
\* one call is followed from the initial state.
Process(agent, input, response) ==
    /\ pc = "setup"
    /\ proc = NoProcessCall
    /\ proc' = ProcessCall(agent, input, response, ProcessOf(agent, input, response))
    /\ UNCHANGED <<agents, pc, user_query, steps, i, context, last_result, ret,
                   exc, calls, plan_calls, plan_response, res, registrations,
                   cycle, runs>>

NextAgents ==
    \E agent \in AgentKinds :
        \E input \in AgentInputs(agent), response \in AgentResponses :
            Process(agent, input, response)

SpecAgents == Init /\ [][NextAgents]_vars

(***************************************************************************)
(* run_full_cycle as a state machine: one action for each phase with what  *)
(* run_full_cycle does with the phase's result (lines 61-89).              *)
(***************************************************************************)
\* cycle_data as the phases see it
CycleData ==
    [phases_completed |-> cycle.phases_completed, errors |-> cycle.errors,
     analysis_stats |-> cycle.analysis_stats]

\* One of the three leading phases has returned: the cycle goes on to the
\* next phase, or ends with the error report of lines 64-75
AfterPhase(phase, r, next, message) ==
    cycle' = [cycle EXCEPT
                 !.phases_completed = r.data.phases_completed,
                 !.errors = r.data.errors,
                 !.analysis_stats = r.data.analysis_stats,
                 !.started = Append(@, phase),
                 !.returned = Append(@, r.out),
                 !.input = r.out,
                 !.pc = IF r.out = 0 THEN "done" ELSE next,
                 !.report = IF r.out = 0 THEN CreateErrorReport(r.data, message)
                            ELSE @]

CycleFrame ==
    UNCHANGED <<agents, pc, user_query, steps, i, context, last_result, ret, exc,
                calls, plan_calls, plan_response, res, registrations, proc, runs>>

\* run_full_cycle is called: lines 51-59
RunFullCycle(custom_keywords) ==
    /\ pc = "setup"
    /\ cycle.pc = "idle"
    /\ cycle' = [cycle EXCEPT
                    !.pc = "search",
                    !.keywords_used = IF custom_keywords = << >> THEN NLP_KEYWORDS
                                      ELSE custom_keywords]
    /\ CycleFrame

\* Lines 62-65
CycleSearch(o) ==
    /\ cycle.pc = "search"
    /\ AfterPhase("search", SearchPhase(CycleData, o), "extraction",
                  "Aucun resultat de recherche")
    /\ CycleFrame

\* Lines 67-70
CycleExtraction(o) ==
    /\ cycle.pc = "extraction"
    /\ AfterPhase("extraction", ExtractionPhase(CycleData, o), "analysis",
                  "Aucun contenu extrait")
    /\ CycleFrame

\* Lines 72-75
CycleAnalysis(o) ==
    /\ cycle.pc = "analysis"
    /\ AfterPhase("analysis", AnalysisPhase(CycleData, o), "synthesis",
                  "Aucune analyse realisee")
    /\ CycleFrame

\* Lines 77-84
CycleSynthesis(o) ==
    /\ cycle.pc = "synthesis"
    /\ \E r \in {SynthesisPhase(CycleData, cycle.input, o)} :
          cycle' = [cycle EXCEPT
                       !.phases_completed = r.data.phases_completed,
                       !.errors = r.data.errors,
                       !.started = Append(@, "synthesis"),
                       !.pc = "done",
                       !.report = r.out]
    /\ CycleFrame

NextCycle ==
    \/ \E custom_keywords \in CustomKeywords : RunFullCycle(custom_keywords)
    \/ \E o \in SearchOutcomes : CycleSearch(o)
    \/ \E o \in ExtractionOutcomes(cycle.input) : CycleExtraction(o)
    \/ \E o \in AnalysisOutcomes(cycle.input) : CycleAnalysis(o)
    \/ \E o \in SynthesisOutcomes : CycleSynthesis(o)

SpecCycle == Init /\ [][NextCycle]_vars

(***************************************************************************)
(* Concurrent runs as a state machine: the registrations come first, then  *)
(* the runs take their steps in any order, one run at a time between two   *)
(* calls of the backend or of an agent.                                    *)
(***************************************************************************)
RunsFrame ==
    UNCHANGED <<pc, user_query, steps, i, context, last_result, ret, exc,
                calls, plan_calls, plan_response, res, registrations, proc, cycle>>

\* register_agent(agent), before any run is started
RegisterBeforeRuns(agent) ==
    /\ pc = "setup"
    /\ \A r \in RunIds : runs[r].pc = "idle"
    /\ agents' = RegisterAgent(agents, agent)
    /\ UNCHANGED runs
    /\ RunsFrame

\* run(query) is called for the run r and asks the backend for a plan
RunCalled(r, query) ==
    /\ pc = "setup"
    /\ runs[r].pc = "idle"
    /\ runs' = Owned(runs, r, [runs[r] EXCEPT !.pc = "planning", !.user_query = query,
                                              !.registry = agents])
    /\ UNCHANGED agents
    /\ RunsFrame

\* The backend answers the run r
RunPlanned(r, response) ==
    /\ runs[r].pc = "planning"
    /\ runs' = Owned(runs, r, Planned(runs[r], response))
    /\ UNCHANGED agents
    /\ RunsFrame

\* The run r goes from the head of its loop to its next process call
RunStepBegun(r) ==
    /\ runs[r].pc = "loop"
    /\ runs' = Owned(runs, r, StepBegun(agents, runs[r]))
    /\ UNCHANGED agents
    /\ RunsFrame

\* The process call of the run r returns or raises
RunStepEnded(r, outcome) ==
    /\ runs[r].pc = "calling"
    /\ runs' = Owned(runs, r, StepEnded(runs[r], outcome))
    /\ UNCHANGED agents
    /\ RunsFrame

NextConcurrent ==
    \/ \E agent \in ConcurrentAgents : RegisterBeforeRuns(agent)
    \/ \E r \in RunIds, query \in ConcurrentQueries : RunCalled(r, query)
    \/ \E r \in RunIds, response \in ConcurrentPlanResponses : RunPlanned(r, response)
    \/ \E r \in RunIds : RunStepBegun(r)
    \/ \E r \in RunIds, outcome \in ConcurrentOutcomes : RunStepEnded(r, outcome)

SpecConcurrent == Init /\ [][NextConcurrent]_vars

(***************************************************************************)
(* Properties of run.                                                      *)
(***************************************************************************)
\* Every element of the plan is a step record
AllRecords == \A n \in 1..Len(steps) : IsDict(steps[n])

\* run has returned the execution context (and not a planning error)
ContextReturned == pc = "returned" /\ "original_query" \in DOMAIN ret

\* agent.process was invoked for step k (0-based)
Invoked(k) == \E c \in 1..Len(calls) : calls[c].step = k

\* agent.process was invoked for step k and returned
ProcessReturned(k) ==
    \E c \in 1..Len(calls) : calls[c].step = k /\ calls[c].outcome[1] = "return"

\* Step k asks for a name that no registered name matches, exactly or fuzzily
FailsResolution(k) ==
    /\ IsDict(steps[k + 1])
    /\ GetAgentFuzzy(agents, DictGet(steps[k + 1], "agent", PyNone)).how = "none"

\* Step k is a record without the agent field
LacksAgent(k) == IsDict(steps[k + 1]) /\ ~HasKey(steps[k + 1], "agent")

\* C1: for every plan of step records, whatever fields the records have or
\* lack and whatever the registered agents do, no exception escapes run, and
\* when run returns the context it has gone through the last step of the plan.
C1_NoStepFailureEscapes ==
    AllRecords =>
        /\ pc # "raised"
        /\ ContextReturned => i = Len(steps) /\ ret = context

\* The reasons str(e) gives for the failures of plan generation in the model
PlanFailureReasons ==
    {"Ollama API Error", "Expecting value: line 1 column 1 (char 0)"}

\* The backend call raised, or its response was empty or no JSON
PlanGenerationFailed == plan_response[1] \in {"raise", "text"}

\* C2: if plan generation fails (the backend raises, or answers with an empty
\* text or a text that is no JSON), run returns a mapping whose only key is
\* error, with a value "Planning failed: <reason>", and no agent is invoked.
C2_PlanningFailureReported ==
    PlanGenerationFailed =>
        /\ pc = "returned"
        /\ DOMAIN ret = {"error"}
        /\ \E reason \in PlanFailureReasons :
              ret["error"] = PyStr("Planning failed: " \o reason)
        /\ calls = << >>

\* Agents are registered, the backend answers with an empty text, run returns
C2_Witness ==
    /\ pc = "returned"
    /\ plan_response = <<"text", "">>
    /\ DOMAIN agents = RegisteredNames
    /\ ret["error"] = PyStr("Planning failed: Expecting value: line 1 column 1 (char 0)")

\* C3: when run returns the context and step k failed resolution, the context
\* holds step_k_error, neither step_k_result nor step_k_agent, no agent was
\* invoked for step k, and every other step whose process returned has its
\* step_j_result.
C3_UnresolvedStepIsolated ==
    ContextReturned =>
        \A k \in 0..(Len(steps) - 1) :
            FailsResolution(k) =>
                /\ StepKey(k, "error") \in DOMAIN ret
                /\ StepKey(k, "result") \notin DOMAIN ret
                /\ StepKey(k, "agent") \notin DOMAIN ret
                /\ ~Invoked(k)
                /\ \A j \in (0..(Len(steps) - 1)) \ {k} :
                      ProcessReturned(j) => StepKey(j, "result") \in DOMAIN ret

\* Step 0 fails resolution, step 1 resolves and its process returns
C3_Witness ==
    /\ ContextReturned
    /\ Len(steps) = 2
    /\ FailsResolution(0)
    /\ ProcessReturned(1)
    /\ ret["step_0_error"] = PyStr("Agent SummaryAgent not found")
    /\ "step_1_result" \in DOMAIN ret

\* The step-indexed keys of the steps 0..n-1
StepKeys(n) ==
    {StepKey(k, suffix) : k \in 0..(n - 1), suffix \in {"result", "agent", "error"}}

\* C4: when run returns the context for a plan of N steps, every step index
\* below N has exactly one of step_i_result and step_i_error, step_i_agent is
\* there exactly when step_i_result is, and the context holds no other keys
\* than these, original_query and the slots of the registered agents' names.
C4_EveryStepAccounted ==
    ContextReturned =>
        /\ \A k \in 0..(Len(steps) - 1) :
              /\ (StepKey(k, "result") \in DOMAIN ret) # (StepKey(k, "error") \in DOMAIN ret)
              /\ (StepKey(k, "agent") \in DOMAIN ret) = (StepKey(k, "result") \in DOMAIN ret)
        /\ DOMAIN ret \subseteq
              {"original_query"} \cup DOMAIN agents \cup StepKeys(Len(steps))

\* A plan of two steps: the first has a result, the second an error
C4_Witness ==
    /\ ContextReturned
    /\ Len(steps) = 2
    /\ {"step_0_result", "step_0_agent", "step_1_error"} \subseteq DOMAIN ret
    /\ Len(calls) = 2

\* The keys run itself writes for a plan of at most MaxSteps steps
CoordinatorKeys == {"original_query"} \cup StepKeys(MaxSteps)

\* The step just taken resolved an agent of the name key
ResolvedAs(key) == res'.how \in {"exact", "fuzzy"} /\ res'.agent.name = key

LookedUp == res.how # "" /\ IsStr(res.name)

\* The similarity of the registered name x to the name looked up
SimilarityTo(x) == Similarity[res.name[2]][x]

\* A ratio num/den against the threshold 0.6
Exceeds06(r) == 10 * r[1] > 6 * r[2]
Reaches06(r) == 10 * r[1] >= 6 * r[2]

\* No registered name is more similar to the name looked up than x is
MostSimilar(x) ==
    \A y \in DOMAIN res.registry : ~RatioLess(SimilarityTo(x), SimilarityTo(y))

\* C6: a name that is a key of the registry resolves to the agent registered
\* under exactly that name, by the lookup and not by fuzzy matching.
C6_ExactNameResolvesExactly ==
    (LookedUp /\ res.name[2] \in DOMAIN res.registry) =>
        /\ res.how = "exact"
        /\ res.agent = res.registry[res.name[2]]

\* ExtractionAgent is looked up while the similar name ValidationAgent is
\* registered too, and the agent registered last under the name is returned
C6_Witness ==
    /\ res.name = PyStr("ExtractionAgent")
    /\ {"ExtractionAgent", "ValidationAgent"} \subseteq DOMAIN res.registry
    /\ Reaches06(Similarity["ExtractionAgent"]["ValidationAgent"])
    /\ res.how = "exact"
    /\ res.agent = [name |-> "ExtractionAgent", id |-> 2]

\* C7 as amended: a name that is no key of the registry resolves to an agent
\* whose registered name is the most similar to it, if that similarity is at
\* least 0.6; if no registered name reaches 0.6 (an empty registry included)
\* no agent is returned.
C7_BestMatchAtThreshold ==
    (LookedUp /\ res.name[2] \notin DOMAIN res.registry) =>
        IF \E x \in DOMAIN res.registry : Reaches06(SimilarityTo(x))
        THEN /\ res.how = "fuzzy"
             /\ \E x \in DOMAIN res.registry :
                   /\ res.agent = res.registry[x]
                   /\ Reaches06(SimilarityTo(x))
                   /\ MostSimilar(x)
        ELSE res.how = "none" /\ res.agent = NoAgent

\* C7 as stated: an agent is returned only if the similarity exceeds 0.6, and
\* none is returned if no registered name exceeds 0.6.
C7_BestMatchAboveThreshold ==
    (LookedUp /\ res.name[2] \notin DOMAIN res.registry) =>
        IF \E x \in DOMAIN res.registry : Exceeds06(SimilarityTo(x))
        THEN /\ res.how = "fuzzy"
             /\ \E x \in DOMAIN res.registry :
                   /\ res.agent = res.registry[x]
                   /\ Exceeds06(SimilarityTo(x))
                   /\ MostSimilar(x)
        ELSE res.how = "none" /\ res.agent = NoAgent

\* TranslationAgent, whose similarity to ReasoningAgent is 18/30, resolves
\* to ReasoningAgent
C7_Witness ==
    /\ res.name = PyStr("TranslationAgent")
    /\ DOMAIN res.registry = {"ReasoningAgent"}
    /\ Similarity["TranslationAgent"]["ReasoningAgent"] = <<18, 30>>
    /\ res.how = "fuzzy"
    /\ res.agent.name = "ReasoningAgent"

(***************************************************************************)
(* Properties of run, continued.                                           *)
(***************************************************************************)
\* run is over: it returned or an exception escaped it
RunOver == pc \in {"returned", "raised"}

\* C8: when run is over for a plan of step records, every record without the
\* agent field has its step_i_error, no agent was invoked for it, and the
\* loop went on through the steps after it.
C8_MissingAgentIsUnresolved ==
    (RunOver /\ AllRecords) =>
        \A k \in 0..(Len(steps) - 1) :
            LacksAgent(k) =>
                /\ StepKey(k, "error") \in DOMAIN context
                /\ ~Invoked(k)
                /\ i = Len(steps)

\* The backend answered with a JSON object whose steps array is empty, or
\* that has no steps key
ZeroStepsPlanned ==
    /\ plan_response[1] = "json"
    /\ IsDict(plan_response[2])
    /\ \/ ~HasKey(plan_response[2], "steps")
       \/ GetKey(plan_response[2], "steps") = PyList(<< >>)

\* C9: when planning yields zero steps (an empty steps array, or an object
\* without the steps key), run returns a context whose only entry is
\* original_query mapped to the user query: no planning error, no agent
\* invoked.
C9_ZeroStepsReturnsQueryOnly ==
    ZeroStepsPlanned =>
        /\ pc = "returned"
        /\ DOMAIN ret = {"original_query"}
        /\ ret["original_query"] = PyStr(user_query)
        /\ calls = << >>

\* Agents are registered and the backend answers an object without steps
C9_Witness ==
    /\ pc = "returned"
    /\ plan_response = <<"json", PyDict(<< <<"plan", PyStr("none")>> >>)>>
    /\ DOMAIN agents = RegisteredNames
    /\ ret = [k \in {"original_query"} |-> PyStr("Explain transformers")]

\* The call c was made for a step whose input source is not USER_QUERY
\* while last_result was a mapping
DerivedFromMapping(c) ==
    calls[c].source # PyStr("USER_QUERY") /\ IsDict(calls[c].last)

\* C10 as amended: for such a call the content is the JSON serialization of
\* the value under extracted_data if that key is present; otherwise the value
\* under analysis if that key is present; otherwise the mapping's generic
\* string form.  When both keys are present, extracted_data is used.
C10_ExtractedDataFirst ==
    \A c \in 1..Len(calls) :
        DerivedFromMapping(c) =>
            /\ calls[c].payload.text =
                  IF HasKey(calls[c].last, "extracted_data")
                  THEN PyStr(JsonDumps(GetKey(calls[c].last, "extracted_data")))
                  ELSE IF HasKey(calls[c].last, "analysis")
                  THEN GetKey(calls[c].last, "analysis")
                  ELSE PyStr(Str(calls[c].last))
            /\ calls[c].payload.content = calls[c].payload.text

\* C10 as stated: the value under analysis if present, otherwise the JSON
\* serialization of the value under extracted_data if present, otherwise the
\* generic string form.
C10_AnalysisFirst ==
    \A c \in 1..Len(calls) :
        DerivedFromMapping(c) =>
            calls[c].payload.text =
                IF HasKey(calls[c].last, "analysis")
                THEN GetKey(calls[c].last, "analysis")
                ELSE IF HasKey(calls[c].last, "extracted_data")
                THEN PyStr(JsonDumps(GetKey(calls[c].last, "extracted_data")))
                ELSE PyStr(Str(calls[c].last))

\* The second step takes the previous result, a mapping with both keys, and
\* its agent is given the serialized extracted_data
C10_Witness ==
    /\ Len(calls) = 2
    /\ calls[2].source = PyStr("PREVIOUS_RESULT")
    /\ IsDict(calls[2].last)
    /\ HasKey(calls[2].last, "analysis")
    /\ HasKey(calls[2].last, "extracted_data")
    /\ calls[2].payload.text = PyStr("{\"summary\": \"S\"}")

\* The call c serves the step right after the step of the call before it,
\* takes PREVIOUS_RESULT, and the call before it returned a mapping with
\* extracted_data
FedByExtractedData(c) ==
    /\ calls[c].step = calls[c - 1].step + 1
    /\ calls[c].source = PyStr("PREVIOUS_RESULT")
    /\ calls[c - 1].outcome[1] = "return"
    /\ IsDict(calls[c - 1].outcome[2])
    /\ HasKey(calls[c - 1].outcome[2], "extracted_data")

\* C11: when a step's result is a mapping with extracted_data and the next
\* step takes PREVIOUS_RESULT, the text and content slots of the payload
\* given to the next step's agent both are the JSON serialization of that
\* extracted_data value.
C11_ExtractedDataHandedOn ==
    \A c \in 2..Len(calls) :
        FedByExtractedData(c) =>
            /\ calls[c].payload.text =
                  PyStr(JsonDumps(GetKey(calls[c - 1].outcome[2], "extracted_data")))
            /\ calls[c].payload.content = calls[c].payload.text

\* Step 0 returns {"extracted_data": {"summary": "S"}} and the agent of step 1
\* is given the text {"summary": "S"}
C11_Witness ==
    /\ Len(calls) = 2
    /\ FedByExtractedData(2)
    /\ calls[1].outcome[2] =
          PyDict(<< <<"extracted_data", PyDict(<< <<"summary", PyStr("S")>> >>)>> >>)
    /\ calls[2].payload.text = PyStr("{\"summary\": \"S\"}")
    /\ calls[2].payload.content = PyStr("{\"summary\": \"S\"}")

\* The name the plan wrote for step k
PlanName(k) == DictGet(steps[k + 1], "agent", PyNone)

\* C12: when the process of the agent resolved for step i returns r, r is
\* recorded under step_i_result, the resolved agent's registered name under
\* step_i_agent, r under that name right after the call, and last_result is
\* r until the next call; every step_i_agent of a returned context is a key
\* of the registry.
C12_ResultRecorded ==
    /\ \A c \in 1..Len(calls) :
          calls[c].outcome[1] = "return" =>
              /\ {StepKey(calls[c].step, "result"), StepKey(calls[c].step, "agent")}
                    \subseteq DOMAIN context
              /\ context[StepKey(calls[c].step, "result")] = calls[c].outcome[2]
              /\ context[StepKey(calls[c].step, "agent")] = PyStr(calls[c].agent.name)
              /\ calls[c].agent.name \in DOMAIN agents
              /\ agents[calls[c].agent.name] = calls[c].agent
              /\ c = Len(calls) =>
                    /\ calls[c].agent.name \in DOMAIN context
                    /\ context[calls[c].agent.name] = calls[c].outcome[2]
                    /\ last_result = calls[c].outcome[2]
    /\ ContextReturned =>
          \A k \in 0..(Len(steps) - 1) :
              StepKey(k, "agent") \in DOMAIN ret =>
                  /\ IsStr(ret[StepKey(k, "agent")])
                  /\ ret[StepKey(k, "agent")][2] \in DOMAIN agents

\* The plan asks for ExtractoinAgent, the step is served by ExtractionAgent
\* and recorded under that name
C12_Witness ==
    /\ ContextReturned
    /\ Len(steps) = 1
    /\ PlanName(0) = PyStr("ExtractoinAgent")
    /\ res.how = "fuzzy"
    /\ DOMAIN ret =
          {"original_query", "step_0_result", "step_0_agent", "ExtractionAgent"}
    /\ ret["step_0_agent"] = PyStr("ExtractionAgent")
    /\ ret["step_0_result"] = calls[1].outcome[2]
    /\ ret["ExtractionAgent"] = calls[1].outcome[2]

\* The call c returned a mapping holding the key error
ReturnedErrorMapping(c) ==
    /\ calls[c].outcome[1] = "return"
    /\ IsDict(calls[c].outcome[2])
    /\ HasKey(calls[c].outcome[2], "error")

\* C16: when process returns a mapping holding the key error, the step is a
\* success like any other: the mapping is under step_i_result, the agent's
\* name under step_i_agent, there is no step_i_error, the mapping is the
\* last_result the next call sees (and is in the agent's slot until then),
\* and the loop goes on with the next step.
C16_ErrorMappingIsSuccess ==
    \A c \in 1..Len(calls) :
        ReturnedErrorMapping(c) =>
            /\ {StepKey(calls[c].step, "result"), StepKey(calls[c].step, "agent")}
                  \subseteq DOMAIN context
            /\ context[StepKey(calls[c].step, "result")] = calls[c].outcome[2]
            /\ context[StepKey(calls[c].step, "agent")] = PyStr(calls[c].agent.name)
            /\ StepKey(calls[c].step, "error") \notin DOMAIN context
            /\ IF c = Len(calls)
               THEN /\ last_result = calls[c].outcome[2]
                    /\ calls[c].agent.name \in DOMAIN context
                    /\ context[calls[c].agent.name] = calls[c].outcome[2]
               ELSE calls[c + 1].last = calls[c].outcome[2]
            /\ i > calls[c].step
            /\ pc = "returned" => i = Len(steps)

\* Step 0 returns {"error": "Ollama API Error"}; step 1 is served with that
\* mapping as its previous result, and the context is returned
C16_Witness ==
    /\ ContextReturned
    /\ Len(calls) = 2
    /\ calls[1].step = 0
    /\ calls[2].step = 1
    /\ calls[1].outcome = <<"return", PyDict(<< <<"error", PyStr("Ollama API Error")>> >>)>>
    /\ calls[2].last = PyDict(<< <<"error", PyStr("Ollama API Error")>> >>)
    /\ "step_0_error" \notin DOMAIN ret
    /\ ret["step_0_result"] = PyDict(<< <<"error", PyStr("Ollama API Error")>> >>)

\* C17: a run makes exactly one planning call and then at most one process
\* call per step, in strictly increasing step order, nothing being tried
\* again; and for a plan of N step records the run ends, with the context
\* returned, after exactly N iterations of the loop.
C17_OnePassOverThePlan ==
    /\ plan_calls <= 1
    /\ pc \in {"loop", "returned", "raised"} => plan_calls = 1
    /\ \A c \in 1..Len(calls) :
          /\ calls[c].step \in 0..(Len(steps) - 1)
          /\ c > 1 => calls[c - 1].step < calls[c].step
    /\ (RunOver /\ AllRecords /\ ~PlanGenerationFailed /\ steps # << >>) =>
          pc = "returned" /\ i = Len(steps)

\* The step indexes whose step_j_agent is the name
StepsServedBy(name) ==
    {j \in 0..(Len(steps) - 1) :
        /\ StepKey(j, "agent") \in DOMAIN ret
        /\ ret[StepKey(j, "agent")] = PyStr(name)}

\* The largest element of a non-empty set of numbers
Maximum(S) == CHOOSE x \in S : \A y \in S : y <= x

\* C20: in a returned context the slot of an agent name holds step_j_result
\* of the last step j whose step_j_agent is that name, and a registered name
\* that no step_j_agent holds is no key of the context.
C20_SlotHoldsLatestResult ==
    ContextReturned =>
        \A name \in DOMAIN agents :
            IF StepsServedBy(name) = {}
            THEN name \notin DOMAIN ret
            ELSE /\ name \in DOMAIN ret
                 /\ ret[name] = ret[StepKey(Maximum(StepsServedBy(name)), "result")]

\* ExtractionAgent serves both steps and returns two different results; its
\* slot holds the second, and ReasoningAgent, registered but unused, has none
C20_Witness ==
    /\ ContextReturned
    /\ DOMAIN agents = {"ExtractionAgent", "ReasoningAgent"}
    /\ StepsServedBy("ExtractionAgent") = {0, 1}
    /\ ret["step_0_result"] # ret["step_1_result"]
    /\ ret["ExtractionAgent"] = ret["step_1_result"]
    /\ "ReasoningAgent" \notin DOMAIN ret

(***************************************************************************)
(* Properties of register_agent and of repeated lookups.                   *)
(***************************************************************************)
\* The names registered so far
NamesRegistered == {registrations[k].name : k \in 1..Len(registrations)}

\* The agent most recently registered under the name
LatestRegistered(name) ==
    registrations[Maximum({k \in 1..Len(registrations) : registrations[k].name = name})]

\* C18: after any sequence of registrations the registry has one entry for
\* each distinct name registered, and the entry of a name is the agent most
\* recently registered under it; so a registration changes the entry of its
\* agent's name only.
C18_LastRegistrationWins ==
    /\ [](/\ DOMAIN agents = NamesRegistered
          /\ Cardinality(DOMAIN agents) = Cardinality(NamesRegistered)
          /\ \A name \in NamesRegistered : agents[name] = LatestRegistered(name))
    /\ [][\A name \in DOMAIN agents :
              registrations'[Len(registrations')].name # name
                  => name \in DOMAIN agents' /\ agents'[name] = agents[name]]_vars

\* ExtractionAgent is registered, then ValidationAgent, then another agent
\* under the name ExtractionAgent: two entries, the second object wins
C18_Witness ==
    /\ Len(registrations) = 3
    /\ registrations[1] = [name |-> "ExtractionAgent", id |-> 1]
    /\ registrations[2] = [name |-> "ValidationAgent", id |-> 1]
    /\ registrations[3] = [name |-> "ExtractionAgent", id |-> 2]
    /\ Cardinality(DOMAIN agents) = 2
    /\ agents["ExtractionAgent"].id = 2
    /\ agents["ValidationAgent"].id = 1

\* The latest two lookups asked for the same name in the same registry
LookedUpTwice ==
    /\ res.before.how # ""
    /\ res.before.name = res.name
    /\ res.before.registry = res.registry

ProcessCalled == proc.agent # ""

\* The backend was called, and raised or returned text that is no JSON
BackendFailed == proc.called /\ proc.response[1] \in {"raise", "text"}

\* process returned a mapping holding the key error
ReturnedError ==
    /\ proc.outcome[1] = "return"
    /\ IsDict(proc.outcome[2])
    /\ HasKey(proc.outcome[2], "error")

\* C13 as stated: for each of the four agents, when the backend call raises
\* or returns text that is no valid structured output, process raises nothing
\* and returns a mapping holding the key error.
C13_BackendFailureIsError == BackendFailed => ReturnedError

\* C13 as amended: so it is when the backend call raises, and when
\* ExtractionAgent, ReasoningAgent or ValidationAgent get text that is no
\* JSON; DocumentAnalysisAgent, which parses nothing, returns such text under
\* analysis, in a mapping without the key error.
C13_BackendFailureIsErrorButFreeText ==
    BackendFailed =>
        IF proc.agent = "DocumentAnalysisAgent" /\ proc.response[1] = "text"
        THEN proc.outcome =
                <<"return", PyDict(<< <<"analysis", PyStr(proc.response[2])>> >>)>>
        ELSE ReturnedError

\* ExtractionAgent gets text that is no JSON and returns its fallback mapping
C13_Witness ==
    /\ proc.agent = "ExtractionAgent"
    /\ proc.called
    /\ proc.response = <<"text", "Sure, here is the answer">>
    /\ proc.outcome[1] = "return"
    /\ GetKey(proc.outcome[2], "error") = PyStr("JSON Decode Error")
    /\ GetKey(proc.outcome[2], "raw_response") = PyStr("Sure, here is the answer")

\* C14: for every agent and every input in which a required key is missing,
\* validate_input returns False without raising, and process goes on with
\* the data that is present and returns a mapping.
C14_MissingKeyStillProcessed ==
    (ProcessCalled /\ \E k \in 1..Len(RequiredKeys(proc.agent)) :
                          RequiredKeys(proc.agent)[k] \notin DOMAIN proc.input) =>
        /\ proc.valid = FALSE
        /\ proc.outcome[1] = "return"
        /\ IsDict(proc.outcome[2])

\* C15: for every agent and every response of the backend, what process
\* returns is a mapping, never a list, a string, a number or null.
C15_ProcessReturnsMapping ==
    (ProcessCalled /\ proc.outcome[1] = "return") => IsDict(proc.outcome[2])

(***************************************************************************)
(* Properties of the flow of last_result from step to step.                *)
(***************************************************************************)
\* What process returned for step k, when it was invoked and returned
ResultOfStep(k) ==
    calls[CHOOSE c \in 1..Len(calls) :
              calls[c].step = k /\ calls[c].outcome[1] = "return"].outcome[2]

\* The steps before step k whose process returned
ReturnedBefore(k) == {j \in 0..(k - 1) : ProcessReturned(j)}

\* The result of the latest step before step k that recorded one, or the
\* user query when none did
LastRecorded(k) ==
    IF ReturnedBefore(k) = {} THEN PyStr(user_query)
    ELSE ResultOfStep(Maximum(ReturnedBefore(k)))

\* The call c is of a step after the first that takes PREVIOUS_RESULT
TakesPrevious(c) ==
    calls[c].step > 0 /\ calls[c].source = PyStr("PREVIOUS_RESULT")

\* C22 as stated: a step at index i > 0 that takes PREVIOUS_RESULT consumes
\* as last_result exactly the result of step i-1.
C22_ConsumesPrecedingResult ==
    \A c \in 1..Len(calls) :
        TakesPrevious(c) =>
            /\ ProcessReturned(calls[c].step - 1)
            /\ calls[c].last = ResultOfStep(calls[c].step - 1)

\* C22 as amended: a step at index i > 0 that takes PREVIOUS_RESULT consumes
\* the result of step i-1 when step i-1 recorded a result, and otherwise
\* the result of the latest earlier step that recorded one, or the user
\* query when none did.
C22_ConsumesLatestRecordedResult ==
    \A c \in 1..Len(calls) :
        TakesPrevious(c) =>
            /\ ProcessReturned(calls[c].step - 1) =>
                  calls[c].last = ResultOfStep(calls[c].step - 1)
            /\ calls[c].last = LastRecorded(calls[c].step)

\* Step 0 returns a list and step 1, taking PREVIOUS_RESULT, consumes it
C22_Witness ==
    /\ Len(calls) = 2
    /\ TakesPrevious(2)
    /\ calls[1].step = 0
    /\ calls[1].outcome = <<"return", PyList(<<PyStr("first"), PyStr("second")>>)>>
    /\ calls[2].last = PyList(<<PyStr("first"), PyStr("second")>>)

\* The step the loop is at fails in this transition: an exception escapes
\* run, or the step's error is recorded
StepRaises == pc = "loop" /\ pc' = "raised"
StepFails == pc = "loop" /\ pc' # "raised" /\ StepKey(i, "error") \in DOMAIN context'

\* C23: a step that fails leaves last_result as it was and writes to the
\* context nothing but its own step_i_error; so every step that does not
\* take USER_QUERY consumes the result of the latest earlier step that
\* recorded one, or the user query when none did.
C23_FailedStepLeavesLastResult ==
    /\ [][/\ StepRaises => last_result' = last_result /\ context' = context
          /\ StepFails =>
               /\ last_result' = last_result
               /\ DOMAIN context' = DOMAIN context \cup {StepKey(i, "error")}
               /\ \A key \in DOMAIN context : context'[key] = context[key]]_vars
    /\ [](\A c \in 1..Len(calls) :
             calls[c].source # PyStr("USER_QUERY") =>
                 calls[c].last = LastRecorded(calls[c].step))

\* Step 0 asks for SummaryAgent, which nothing resolves; step 1 takes
\* PREVIOUS_RESULT and consumes the user query
C23_Witness ==
    /\ Len(calls) = 1
    /\ calls[1].step = 1
    /\ calls[1].source = PyStr("PREVIOUS_RESULT")
    /\ "step_0_error" \in DOMAIN context
    /\ DOMAIN calls[1].payload.context = {"original_query", "step_0_error"}
    /\ calls[1].last = PyStr(user_query)

(***************************************************************************)
(* Properties of the payload handed to agent.process.                      *)
(***************************************************************************)
PayloadSlots ==
    {"instruction", "context", "text", "content", "goal", "fields", "criteria"}

\* content_to_process of the call c, from the input source and the
\* last_result the step had
ContentOfCall(c) ==
    ContentToProcess(calls[c].source, calls[c].last, user_query)[2]

\* The instruction of the step of the call c (None when the step has none)
InstructionOfCall(c) == DictGet(steps[calls[c].step + 1], "instruction", PyNone)

\* C24: every payload handed to an agent has the seven slots, text and
\* content both are content_to_process, and instruction, goal and criteria
\* all are the step's instruction, whichever agent the step resolved to.
C24_PayloadHasEverySlot ==
    \A c \in 1..Len(calls) :
        /\ DOMAIN calls[c].payload = PayloadSlots
        /\ calls[c].payload.text = ContentOfCall(c)
        /\ calls[c].payload.content = ContentOfCall(c)
        /\ calls[c].payload.instruction = InstructionOfCall(c)
        /\ calls[c].payload.goal = InstructionOfCall(c)
        /\ calls[c].payload.criteria = InstructionOfCall(c)

\* ValidationAgent, resolved by fuzzy match, is handed the seven slots with
\* the user query as text and content and Summarize in the three others
C24_Witness ==
    /\ Len(calls) = 1
    /\ calls[1].agent.name = "ValidationAgent"
    /\ DOMAIN calls[1].payload = PayloadSlots
    /\ calls[1].payload.text = PyStr("Explain transformers")
    /\ calls[1].payload.content = PyStr("Explain transformers")
    /\ calls[1].payload.instruction = PyStr("Summarize")
    /\ calls[1].payload.goal = PyStr("Summarize")
    /\ calls[1].payload.criteria = PyStr("Summarize")

\* The registered names that contain "Extraction"
ExtractionNames ==
    {n \in RegisteredNames :
        \E k \in 1..(Len(Chars(n)) - 9) :
            SubSeq(Chars(n), k, k + 9) = Chars("Extraction")}

\* C25: the fields slot of a payload is ["summary", "entities"] exactly when
\* the name of the resolved agent, not the name the plan wrote, contains
\* "Extraction", and the empty list otherwise.
C25_FieldsFollowResolvedName ==
    \A c \in 1..Len(calls) :
        /\ calls[c].agent.name \in ExtractionNames =>
              calls[c].payload.fields = <<"summary", "entities">>
        /\ calls[c].agent.name \notin ExtractionNames =>
              calls[c].payload.fields = << >>

\* The plan writes ExtractionAgent, the registry holds no such agent and
\* the step resolves to ValidationAgent: the fields slot is empty
C25_Witness ==
    /\ Len(calls) = 1
    /\ PlanName(calls[1].step) = PyStr("ExtractionAgent")
    /\ calls[1].agent.name = "ValidationAgent"
    /\ calls[1].payload.fields = << >>

\* C26: a step whose input_data is absent or is anything but USER_QUERY is
\* handled as PREVIOUS_RESULT; so until a step has recorded a result the
\* content is the user query whatever input_data says, and a step that
\* takes USER_QUERY is given the user query whatever the earlier results.
C26_OnlyUserQueryIsSpecial ==
    \A c \in 1..Len(calls) :
        /\ calls[c].source # PyStr("USER_QUERY") =>
              calls[c].payload.text =
                  ContentToProcess(PyStr("PREVIOUS_RESULT"), calls[c].last, user_query)[2]
        /\ calls[c].source = PyStr("USER_QUERY") =>
              calls[c].payload.text = PyStr(user_query)
        /\ ReturnedBefore(calls[c].step) = {} =>
              calls[c].payload.text = PyStr(user_query)

\* Step 0 returns an analysis; step 1, whose input_data is user_query in
\* lower case, is given the analysis and not the user query
C26_Witness ==
    /\ Len(calls) = 2
    /\ calls[1].outcome = <<"return", PyDict(<< <<"analysis", PyStr("A summary")>> >>)>>
    /\ calls[2].source = PyStr(OtherInputField)
    /\ calls[2].payload.text = PyStr("A summary")

\* The names of the agents whose process returned before the call c
SlotsBefore(c) ==
    {calls[d].agent.name : d \in {e \in 1..(c - 1) : calls[e].outcome[1] = "return"}}

\* C27: when process is invoked for step i, the context slot of its payload
\* holds original_query and, besides, only what the steps before i wrote:
\* their step-indexed keys and the name slots of their agents; it holds no
\* step-indexed key of step i or of a later step.
C27_ContextHoldsEarlierStepsOnly ==
    \A c \in 1..Len(calls) :
        /\ "original_query" \in DOMAIN calls[c].payload.context
        /\ calls[c].payload.context["original_query"] = PyStr(user_query)
        /\ DOMAIN calls[c].payload.context \subseteq
              {"original_query"} \cup StepKeys(calls[c].step) \cup SlotsBefore(c)
        /\ DOMAIN calls[c].payload.context
              \cap (StepKeys(MaxSteps + 1) \ StepKeys(calls[c].step)) = {}

\* Step 0 was served by ExtractionAgent; the agent of step 1 is handed a
\* context with the query, step 0's result and agent, and the name slot
C27_Witness ==
    /\ Len(calls) = 2
    /\ calls[2].step = 1
    /\ DOMAIN calls[2].payload.context =
          {"original_query", "step_0_result", "step_0_agent", "ExtractionAgent"}

(***************************************************************************)
(* The registry during a run.                                              *)
(***************************************************************************)
\* The transition is a register_agent call
IsRegistration ==
    /\ pc = "setup"
    /\ pc' = "setup"
    /\ \E agent \in AgentObjs : agents' = RegisterAgent(agents, agent)

\* C28: run, plan generation and the lookups of the steps never add, remove
\* or replace a registry entry: only register_agent changes the registry,
\* so from the start of run to its end the registry is the same, and every
\* lookup of the run was made in the registry the coordinator still has.
C28_OnlyRegisterChangesRegistry ==
    /\ [][agents' # agents => IsRegistration]_vars
    /\ [][pc' # "setup" => agents' = agents]_vars
    /\ [](res.how # "" => res.registry = agents)

\* A run of two steps over two registered agents has returned, its last
\* lookup was a fuzzy match, and the registry is as the lookup found it
C28_Witness ==
    /\ pc = "returned"
    /\ Len(calls) = 2
    /\ res.how = "fuzzy"
    /\ DOMAIN agents = {"ExtractionAgent", "ValidationAgent"}
    /\ res.registry = agents

(***************************************************************************)
(* Properties of run_full_cycle.                                           *)
(***************************************************************************)
\* The place of a phase in the fixed order
PhaseIndex(phase) == CHOOSE k \in 1..Len(Phases) : Phases[k] = phase

\* The first of the leading phases that returned nothing, 0 when none did
FirstEmpty ==
    IF \E k \in 1..Len(cycle.returned) : cycle.returned[k] = 0
    THEN CHOOSE k \in 1..Len(cycle.returned) : cycle.returned[k] = 0
    ELSE 0

\* C29: run_full_cycle never raises; its phases start in the order search,
\* extraction, analysis, synthesis, each only after every earlier phase
\* returned something; the first leading phase that returns nothing ends
\* the cycle with a report of status error; and phases_completed lists
\* phases of the fixed order, in that order, none of them twice.
C29_CyclePhasesInOrder ==
    /\ ~cycle.raised
    /\ cycle.pc = "done" => cycle.report # NoReport
    /\ Len(cycle.started) <= Len(Phases)
    /\ \A k \in 1..Len(cycle.started) : cycle.started[k] = Phases[k]
    /\ \A k \in 2..Len(cycle.started) : cycle.returned[k - 1] > 0
    /\ FirstEmpty # 0 =>
          /\ cycle.pc = "done"
          /\ Len(cycle.started) = FirstEmpty
          /\ cycle.report.status = "error"
    /\ \A k \in 1..Len(cycle.phases_completed) :
          \E n \in 1..Len(Phases) : cycle.phases_completed[k] = Phases[n]
    /\ \A a, b \in 1..Len(cycle.phases_completed) :
          a < b => PhaseIndex(cycle.phases_completed[a])
                       < PhaseIndex(cycle.phases_completed[b])

\* Three results are found and two contents extracted, the analysis of both
\* raises: the cycle ends there with search and extraction completed and an
\* error report
C29_Witness ==
    /\ cycle.pc = "done"
    /\ cycle.started = <<"search", "extraction", "analysis">>
    /\ cycle.returned = <<3, 2, 0>>
    /\ cycle.phases_completed = <<"search", "extraction">>
    /\ cycle.report = ErrorReport("Aucune analyse realisee")

(***************************************************************************)
(* Properties of concurrent runs.                                          *)
(***************************************************************************)
\* The run r is over: it returned or an exception escaped it
RunEnded(r) == runs[r].pc \in {"returned", "raised"}

\* What the run r would have come to alone, with the same query, the same
\* answer of the backend and the same outcomes of process
Alone(r) ==
    RunAlone(runs[r].registry, runs[r].user_query, runs[r].plan_response,
             runs[r].outcomes)

\* C21: with the registrations made before the runs, however the runs are
\* interleaved between their backend and agent calls, every run ends as it
\* would have ended alone with the same backend and agent responses (the
\* same returned context, the same last_result), and the registry is, all
\* through a run and after it, the registry the run was started with.
C21_RunsDoNotInterfere ==
    \A r \in RunIds :
        /\ runs[r].pc # "idle" => agents = runs[r].registry
        /\ RunEnded(r) =>
              /\ runs[r].pc = Alone(r).pc
              /\ runs[r].ret = Alone(r).ret
              /\ runs[r].exc = Alone(r).exc
              /\ runs[r].context = Alone(r).context
              /\ runs[r].last_result = Alone(r).last_result

\* Two runs with different queries have both returned a context of two
\* steps, the second run having been planned while the first was inside its
\* first process call
C21_Witness ==
    /\ runs[1].pc = "returned"
    /\ runs[2].pc = "returned"
    /\ runs[1].user_query # runs[2].user_query
    /\ Len(runs[1].outcomes) = 2
    /\ Len(runs[2].outcomes) = 1
    /\ "step_1_result" \in DOMAIN runs[1].ret
    /\ "step_0_error" \in DOMAIN runs[2].ret
    /\ runs[1].ret["original_query"] = PyStr(runs[1].user_query)
    /\ runs[2].ret["original_query"] = PyStr(runs[2].user_query)

====
